---- MODULE Spec2Model ----
(***************************************************************************)
(* A model of the table-reconstruction pipeline of the 10-K reader         *)
(* (src/pdf_processor.py): the page locator find_page_with_text, the row   *)
(* classifier merge_long_rows and the numeric token parser                 *)
(* process_table_data.                                                     *)
(*                                                                         *)
(* Python strings are modelled as sequences of characters, each character  *)
(* a one-character TLA+ string.  Three characters that are not ASCII are   *)
(* written by name: "EMDASH" (U+2014), "ENDASH" (U+2013), "HBAR" (U+2015). *)
(***************************************************************************)
EXTENDS Integers, Sequences, FiniteSets, TLC

VARIABLES
    \* find_page_with_text
    pdf_readable,   \* FALSE: opening or reading the document raises
    pdf_pages,      \* pdf_reader.pages, as the text extract_text() gives for each
    search_text,    \* the statement title looked for
    min_page,       \* the 1-indexed page the search starts from
    page_pc,        \* "call" before the call, "returned" after it
    page_result,    \* what find_page_with_text returned
    \* merge_long_rows
    camelot_df,     \* the table passed in: a sequence of rows, each a sequence of cells
    merge_pc,       \* "call", "pass1", "pass2" or "returned"
    i,              \* the loop index of the running pass (0-based)
    merged_rows,    \* the rows the first pass has emitted
    final_rows,     \* the rows the second pass has emitted
    result_df,      \* the table merge_long_rows returned
    runs,           \* 1 in the first run, 2 when run again on its own output
    first_result,   \* the table the first run returned
    \* process_table_data and the header names applied to its result
    ptd_df,         \* the DataFrame passed in: [columns, rows], cells as strings
    df,             \* the DataFrame the row loop reads (header re-inserted as a row)
    ptd_pc,         \* "call", "rows", "returned" or "named"
    row_index,      \* the number of rows the loop has read
    processed_rows, \* the rows built so far, each a description and its values
    ptd_result,     \* the DataFrame process_table_data returned
    header_years,   \* what extract_header_info gave (<<>> for None)
    table_df,       \* the returned table after the header names are applied
    \* FinancialStatementValidator
    statements,           \* self.statements: a list of [name, headers, tableData]
    val_pc,               \* the next method validate_all_checks calls, or "done"/"raised"
    balance_checks,       \* what validate_balance_sheet_checks returned, by check number
    income_checks,        \* what validate_income_statement_checks returned
    cash_flow_checks,     \* what validate_cash_flow_checks returned
    cross_statement_checks, \* what validate_cross_statement_checks returned
    balance_sheet_totals, \* <<>> for None, else <<[assets, liabilities_equity]>>
    summary,              \* <<>> before the return, else <<the 'summary' dict>>
    \* extract_header_info
    page_lines,     \* text.split('\n') of the extracted page, <<>> if there is no text
    has_text,       \* FALSE: extract_text() gave None, or the page could not be opened
    hdr_pc,         \* "scan", "anchor", "fallback" or "returned"
    line_index,     \* the line the scan for the anchor line is at (0-based)
    header_line,    \* header_line, <<>> for None
    headers_found,  \* the return value: [none, headers]
    \* extract_table_from_page, extract_table_hybrid, extract_table_rows_with_camelot
    page_rows,      \* the rows of the extracted page, each a sequence of cells
    asm_pc,         \* "start", "camelot", "hybrid", "assemble", "filter", "returned", "raised"
    has_metadata,   \* FALSE: intelligent_financial_parser gave None
    year_headers,   \* header_years, <<>> for None
    best_df,        \* what camelot did: "raises", "none" or "table" ("" before the call)
    plumber_tables, \* what pdfplumber did: "raises", "none" or "tables" ("" if not called)
    backends_tried, \* the extraction backends called so far, in order
    rows_df,        \* what extract_table_rows_with_camelot returned: [none, frame]
    hybrid_df,      \* what extract_table_hybrid returned: [none, frame]
    page_table,     \* table_df of extract_table_from_page, its columns renamed
    filter_index,   \* the number of rows the header filter has read
    rows_to_keep,   \* rows_to_keep of the header filter (0-based row indices)
    extracted,      \* what extract_table_from_page returned: [none, frame]
    \* extract_all_statements_to_json
    doc_pc,               \* "statements", "finish", "returned", "raised"
    attempts,             \* the statements looked for so far and what became of each
    extracted_statements, \* extracted_statements
    validate_calls,       \* the calls of validate_financial_statements so far
    validation_raised,    \* TRUE: validate_financial_statements raised
    doc_result,           \* what extract_all_statements_to_json returned
    \* pdf_websocket_server: one connection handled by handle_websocket
    ws_pc,           \* "receive", "handle", "result", "shutdown", "closed"
    connection_open, \* FALSE: the client has gone, send raises ConnectionClosed
    ws_requests,     \* the pdf_path of the process_pdf requests received, in order
    sent,            \* the messages sent on the connection, in order
    worker,          \* the future of process_pdf_with_progress: "none", "running",
                     \* "returned", "raised"
    task_id,         \* task_id of the request being handled
    issued           \* the task ids uuid4 has given so far

page_vars == <<pdf_readable, pdf_pages, search_text, min_page, page_pc, page_result>>

merge_vars ==
    <<camelot_df, merge_pc, i, merged_rows, final_rows, result_df, runs, first_result>>

ptd_vars ==
    <<ptd_df, df, ptd_pc, row_index, processed_rows, ptd_result, header_years, table_df>>

val_vars ==
    <<statements, val_pc, balance_checks, income_checks, cash_flow_checks,
      cross_statement_checks, balance_sheet_totals, summary>>

hdr_vars == <<page_lines, has_text, hdr_pc, line_index, header_line, headers_found>>

asm_vars ==
    <<page_rows, asm_pc, has_metadata, year_headers, best_df, plumber_tables,
      backends_tried, rows_df, hybrid_df, page_table, filter_index, rows_to_keep,
      extracted>>

doc_vars ==
    <<doc_pc, attempts, extracted_statements, validate_calls, validation_raised,
      doc_result>>

ws_vars == <<ws_pc, connection_open, ws_requests, sent, worker, task_id, issued>>

vars == <<page_vars, merge_vars, ptd_vars, val_vars, hdr_vars, asm_vars, doc_vars, ws_vars>>

\* what a call of find_page_with_text leaves alone
not_page_vars == <<merge_vars, ptd_vars, val_vars, hdr_vars, asm_vars, doc_vars, ws_vars>>

\* what merge_long_rows leaves alone
not_merge_vars == <<page_vars, ptd_vars, val_vars, hdr_vars, asm_vars, doc_vars, ws_vars>>

\* what process_table_data leaves alone
not_ptd_vars == <<page_vars, merge_vars, val_vars, hdr_vars, asm_vars, doc_vars, ws_vars>>

\* what the validator leaves alone
not_val_vars == <<page_vars, merge_vars, ptd_vars, hdr_vars, asm_vars, doc_vars, ws_vars>>

\* what extract_header_info leaves alone
not_hdr_vars == <<page_vars, merge_vars, ptd_vars, val_vars, asm_vars, doc_vars, ws_vars>>

\* what extract_table_from_page leaves alone
not_asm_vars == <<page_vars, merge_vars, ptd_vars, val_vars, hdr_vars, doc_vars, ws_vars>>

\* what extract_all_statements_to_json leaves alone
not_doc_vars == <<page_vars, merge_vars, ptd_vars, val_vars, hdr_vars, asm_vars, ws_vars>>

\* what the WebSocket server leaves alone
not_ws_vars == <<page_vars, merge_vars, ptd_vars, val_vars, hdr_vars, asm_vars, doc_vars>>

-----------------------------------------------------------------------------
(* Python's str, character by character                                    *)

UpperChars == <<"A", "B", "C", "D", "E", "F", "G", "H", "I", "J", "K", "L", "M",
                "N", "O", "P", "Q", "R", "S", "T", "U", "V", "W", "X", "Y", "Z">>

LowerChars == <<"a", "b", "c", "d", "e", "f", "g", "h", "i", "j", "k", "l", "m",
                "n", "o", "p", "q", "r", "s", "t", "u", "v", "w", "x", "y", "z">>

UpperSet == {UpperChars[k] : k \in DOMAIN UpperChars}

LowerSet == {LowerChars[k] : k \in DOMAIN LowerChars}

DigitSet == {"0", "1", "2", "3", "4", "5", "6", "7", "8", "9"}

\* what str.split() and str.strip() treat as white space
WhiteSpace == {" ", "\t", "\n", "\r"}

\* what the regular expression class \s matches
ReSpace == WhiteSpace

SetMin(S) == CHOOSE x \in S : \A y \in S : x <= y

SetMax(S) == CHOOSE x \in S : \A y \in S : x >= y

\* the uppercase letter of each lowercase letter
ToUpper ==
    [c \in LowerSet |-> UpperChars[CHOOSE k \in DOMAIN LowerChars : LowerChars[k] = c]]

\* the lowercase letter of each uppercase letter
ToLower ==
    [c \in UpperSet |-> LowerChars[CHOOSE k \in DOMAIN UpperChars : UpperChars[k] = c]]

\* c.upper() of one character
UpperChar(c) == IF c \in LowerSet THEN ToUpper[c] ELSE c

\* c.lower() of one character
LowerChar(c) == IF c \in UpperSet THEN ToLower[c] ELSE c

\* s.upper()
Upper(s) == [k \in 1..Len(s) |-> UpperChar(s[k])]

\* s.lower()
Lower(s) == [k \in 1..Len(s) |-> LowerChar(s[k])]

\* s.isupper(): at least one cased character, and no lowercase one
IsUpper(s) ==
    /\ \E k \in 1..Len(s) : s[k] \in UpperSet
    /\ \A k \in 1..Len(s) : s[k] \notin LowerSet

\* s.islower(): at least one cased character, and no uppercase one
IsLower(s) ==
    /\ \E k \in 1..Len(s) : s[k] \in LowerSet
    /\ \A k \in 1..Len(s) : s[k] \notin UpperSet

\* s.startswith(p)
StartsWith(s, p) == Len(s) >= Len(p) /\ SubSeq(s, 1, Len(p)) = p

\* s.endswith(p)
EndsWith(s, p) == Len(s) >= Len(p) /\ SubSeq(s, Len(s) - Len(p) + 1, Len(s)) = p

\* the 1-based places where sub occurs in s
Occurrences(s, sub) ==
    {k \in 1..(Len(s) - Len(sub) + 1) : SubSeq(s, k, k + Len(sub) - 1) = sub}

\* sub in s
Contains(s, sub) == Occurrences(s, sub) # {}

\* s.find(sub), 0-based, -1 when sub does not occur
Find(s, sub) ==
    IF Occurrences(s, sub) = {} THEN -1 ELSE SetMin(Occurrences(s, sub)) - 1

\* s.count(sub): occurrences that do not overlap, found left to right
RECURSIVE CountFrom(_, _, _)
CountFrom(s, sub, from) ==
    LET later == {k \in Occurrences(s, sub) : k >= from}
    IN  IF later = {} THEN 0
        ELSE 1 + CountFrom(s, sub, SetMin(later) + Len(sub))

Count(s, sub) == CountFrom(s, sub, 1)

\* s.strip()
Strip(s) ==
    LET inked == {k \in 1..Len(s) : s[k] \notin WhiteSpace}
    IN  IF inked = {} THEN <<>> ELSE SubSeq(s, SetMin(inked), SetMax(inked))

\* the places where a word of s starts
WordStarts(s) ==
    {k \in 1..Len(s) : s[k] \notin WhiteSpace /\ (k = 1 \/ s[k - 1] \in WhiteSpace)}

\* the place where the word starting at k ends
WordEnd(s, k) ==
    SetMin({e \in k..Len(s) : e = Len(s) \/ s[e + 1] \in WhiteSpace})

\* the words of s that start at the places starts, left to right
RECURSIVE WordsAt(_, _)
WordsAt(s, starts) ==
    IF starts = {} THEN <<>>
    ELSE LET k == SetMin(starts)
         IN  <<SubSeq(s, k, WordEnd(s, k))>> \o WordsAt(s, starts \ {k})

\* s.split()
Split(s) == WordsAt(s, WordStarts(s))

\* len(s.split())
WordCount(s) == Cardinality(WordStarts(s))

\* sep.join(parts)
RECURSIVE Join(_, _)
Join(sep, parts) ==
    IF parts = <<>> THEN <<>>
    ELSE IF Len(parts) = 1 THEN parts[1]
    ELSE parts[1] \o sep \o Join(sep, Tail(parts))

\* s.replace(c, '') for a single character c
RemoveChar(s, c) == SelectSeq(s, LAMBDA x : x # c)

\* n words "x" separated by single spaces
Words(n) == [k \in 1..(2 * n - 1) |-> IF k % 2 = 1 THEN "x" ELSE " "]

-----------------------------------------------------------------------------
(* find_page_with_text                                                     *)

\* the word count at which a page stops being a statement page
max_words == 350

\* return None
NoPage == 0

TABLE_OF_CONTENTS ==
    <<"T", "A", "B", "L", "E", " ", "O", "F", " ", "C", "O", "N", "T", "E", "N", "T", "S">>

INDEX == <<"I", "N", "D", "E", "X">>

\* `if not text: continue`
PageHasNoText(text) == text = <<>>

\* the word-count test with the boundary page let through
PageTooLong_strict(text) == WordCount(text) > max_words

\* `if word_count >= 350: continue`
PageTooLong(text) == WordCount(text) >= max_words

\* the exclusion test with a single "TABLE OF CONTENTS" already excluding
PageExcluded_once(text) ==
    \/ Count(Upper(text), TABLE_OF_CONTENTS) >= 1
    \/ Contains(Upper(text), INDEX)

\* the exclusion test on the uppercased text
PageExcluded(text) ==
    \/ Count(Upper(text), TABLE_OF_CONTENTS) >= 2
    \/ Contains(Upper(text), INDEX)

\* `if search_text.upper() in upper_text`
PageMatches(text, search) == Contains(Upper(text), Upper(search))

\* the for loop over range(min_page - 1, len(pages)), page_num 0-based
RECURSIVE ScanPages(_, _, _)
ScanPages(pages, search, page_num) ==
    IF page_num >= Len(pages) THEN NoPage
    ELSE LET text == pages[page_num + 1]
         IN  IF PageHasNoText(text) THEN ScanPages(pages, search, page_num + 1)
             ELSE IF PageTooLong(text) THEN ScanPages(pages, search, page_num + 1)
             ELSE IF PageExcluded(text) THEN ScanPages(pages, search, page_num + 1)
             ELSE IF PageMatches(text, search) THEN page_num + 1
             ELSE ScanPages(pages, search, page_num + 1)

\* find_page_with_text(pdf_path, search_text, min_page); an exception gives None
find_page_with_text(readable, pages, search, minp) ==
    IF ~readable THEN NoPage ELSE ScanPages(pages, search, minp - 1)

-----------------------------------------------------------------------------
(* merge_long_rows: the regular expressions and the row tests              *)

\* the default of the parameter word_tolerance
word_tolerance == 15

\* str() of a missing cell
NAN == <<"n", "a", "n">>

LetterSet == UpperSet \cup LowerSet

\* re.match(r'^[\d,]+$', s)
MatchDigitsCommas(s) ==
    /\ Len(s) >= 1
    /\ \A k \in 1..Len(s) : s[k] \in DigitSet \cup {","}

\* re.match(r'^-?[D]+\.?[\d]*$', s), D the character class of the first run
MatchNumber(s, D) ==
    LET body == IF s # <<>> /\ s[1] = "-" THEN Tail(s) ELSE s
    IN  \E n \in 1..Len(body) :
            /\ \A k \in 1..n : body[k] \in D
            /\ LET rest == SubSeq(body, n + 1, Len(body))
                   digits == IF rest # <<>> /\ rest[1] = "." THEN Tail(rest) ELSE rest
               IN  \A k \in 1..Len(digits) : digits[k] \in DigitSet

\* the number test merge_long_rows applies to one value cell
CellIsNumber(val) ==
    LET val_str == Strip(val)
    IN  /\ val_str # <<>>
        /\ IF StartsWith(val_str, <<"(">>) /\ EndsWith(val_str, <<")">>) /\ Len(val_str) > 2
           THEN MatchDigitsCommas(SubSeq(val_str, 2, Len(val_str) - 1))
           ELSE MatchNumber(RemoveChar(RemoveChar(val_str, ","), "$"),
                            DigitSet \cup {","})

\* has_numbers / test_has_numbers: some cell after the first is a number
has_numbers(row) == \E col \in 2..Len(row) : CellIsNumber(row[col])

\* str(row.iloc[0]).strip() if len(row) > 0 else ""
RowText(row) == IF Len(row) > 0 THEN Strip(row[1]) ELSE <<>>

continuation_words ==
    {<<"a", "n", "d">>, <<"o", "r">>, <<"t", "h", "e">>, <<"o", "f">>, <<"i", "n">>,
     <<"t", "o">>, <<"f", "o", "r">>, <<"w", "i", "t", "h">>, <<"b", "y">>,
     <<"f", "r", "o", "m">>}

\* re.match(r'^[A-Z][a-z\s]+' + ending + '$', text, re.IGNORECASE) for one of
\* the literal endings
MatchCapitalizedEnding(text, endings) ==
    \E e \in endings :
        /\ Len(text) >= Len(e) + 2
        /\ EndsWith(Lower(text), e)
        /\ text[1] \in LetterSet
        /\ \A k \in 2..(Len(text) - Len(e)) : text[k] \in LetterSet \cup ReSpace

\* the list header_patterns, each matched with re.IGNORECASE
MatchesHeaderPattern(text) ==
    \/ MatchCapitalizedEnding(text, {<<":">>})
    \/ (Len(text) >= 1 /\ \A k \in 1..Len(text) : text[k] \in LetterSet \cup ReSpace)
    \/ MatchCapitalizedEnding(text, {<<"a", "s", "s", "e", "t">>,
                                     <<"a", "s", "s", "e", "t", "s">>})
    \/ MatchCapitalizedEnding(text, {<<"l", "i", "a", "b", "i", "l", "i", "t", "i", "e">>,
                                     <<"l", "i", "a", "b", "i", "l", "i", "t", "i", "e", "s">>})
    \/ MatchCapitalizedEnding(text, {<<"e", "q", "u", "i", "t", "y">>})

\* the short-phrase branch of is_section_header: the value it returns, or
\* "fall" when control falls through to the patterns
ShortPhrase(text) ==
    LET word_count == WordCount(text)
        words == Split(Lower(text))
    IN  IF /\ word_count < word_tolerance
           /\ words # <<>>
           /\ words[Len(words)] \notin continuation_words
           /\ ~EndsWith(text, <<",">>)
           /\ ~EndsWith(text, <<";">>)
        THEN (IF word_count = 1 THEN "False" ELSE "True")
        ELSE "fall"

\* is_section_header(text)
is_section_header(raw) ==
    IF raw = <<>> \/ raw = NAN THEN FALSE
    ELSE LET text == Strip(raw)
         IN  IF text = <<>> \/ text[1] \notin UpperSet THEN FALSE
             ELSE IF EndsWith(text, <<":">>) THEN TRUE
             ELSE LET short == ShortPhrase(text)
                  IN  IF short = "False" THEN FALSE
                      ELSE IF short = "True" THEN TRUE
                      ELSE MatchesHeaderPattern(text)

\* should_merge_up asking for a lowercase first letter
should_merge_up_lowercase(raw) ==
    IF raw = <<>> \/ raw = NAN THEN FALSE
    ELSE LET text == Strip(raw)
         IN  /\ WordCount(text) < word_tolerance
             /\ ~IsUpper(text)
             /\ \/ (text # <<>> /\ text[1] \in LowerSet)
                \/ IsLower(text)

\* should_merge_up(text)
should_merge_up(raw) ==
    IF raw = <<>> \/ raw = NAN THEN FALSE
    ELSE LET text == Strip(raw)
         IN  /\ WordCount(text) < word_tolerance
             /\ ~IsUpper(text)
             /\ \/ (text # <<>> /\ text[1] \notin UpperSet)
                \/ IsLower(text)

\* the look-ahead loop without its stop at a section header
RECURSIVE LookAhead_past(_, _)
LookAhead_past(table, j) ==
    IF j >= Len(table) THEN -1
    ELSE IF has_numbers(table[j + 1]) THEN j
    ELSE LookAhead_past(table, j + 1)

\* the look-ahead loop `for j in range(i + 1, len(camelot_df))`: the index of
\* the next row with numbers, -1 for None
RECURSIVE LookAhead(_, _)
LookAhead(table, j) ==
    IF j >= Len(table) THEN -1
    ELSE IF is_section_header(RowText(table[j + 1])) THEN -1
    ELSE IF has_numbers(table[j + 1]) THEN j
    ELSE LookAhead(table, j + 1)

\* merged_text_parts for the rows first..last (0-based)
MergedTextParts(table, first, last) ==
    SelectSeq([k \in 1..(last - first + 1) |-> RowText(table[first + k])],
              LAMBDA t : t # <<>> /\ t # NAN)

\* merged_data taken from the first row of the run instead of the last
MergedData_first(table, first, last) ==
    [table[first + 1] EXCEPT ![1] = Join(<<" ">>, MergedTextParts(table, first, last))]

\* merged_data: the last row with the joined text as its description
MergedData(table, first, last) ==
    [table[last + 1] EXCEPT ![1] = Join(<<" ">>, MergedTextParts(table, first, last))]

\* one iteration of the first pass: <<the row appended, the next i>>
Pass1Body(table, idx) ==
    LET current_row == table[idx + 1]
        current_text == RowText(current_row)
        next_row_idx == LookAhead(table, idx + 1)
    IN  IF has_numbers(current_row) THEN <<current_row, idx + 1>>
        ELSE IF is_section_header(current_text) THEN <<current_row, idx + 1>>
        ELSE IF WordCount(current_text) >= word_tolerance
        THEN (IF next_row_idx # -1
              THEN (IF MergedTextParts(table, idx, next_row_idx) # <<>>
                    THEN <<MergedData(table, idx, next_row_idx), next_row_idx + 1>>
                    ELSE <<current_row, idx + 1>>)
              ELSE <<current_row, idx + 1>>)
        ELSE <<current_row, idx + 1>>

\* one iteration of the second pass: final_rows after it
Pass2Body(rows, out, idx) ==
    LET current_row == rows[idx + 1]
        current_text == RowText(current_row)
    IN  IF should_merge_up(current_text) /\ out # <<>>
        THEN LET prev_row == out[Len(out)]
                 combined_text == Strip(RowText(prev_row) \o <<" ">> \o current_text)
             IN  [out EXCEPT ![Len(out)] = [prev_row EXCEPT ![1] = combined_text]]
        ELSE Append(out, current_row)

-----------------------------------------------------------------------------
(* merge_long_rows: the steps                                              *)

\* the guard `camelot_df is None or camelot_df.empty or len(camelot_df) <= 1`
MergeEarlyReturn ==
    /\ merge_pc = "call"
    /\ Len(camelot_df) <= 1
    /\ result_df' = camelot_df
    /\ merge_pc' = "returned"
    /\ UNCHANGED <<camelot_df, i, merged_rows, final_rows, runs, first_result>>
    /\ UNCHANGED not_merge_vars

\* `merged_rows = []; i = 0`
Pass1Start ==
    /\ merge_pc = "call"
    /\ Len(camelot_df) > 1
    /\ merged_rows' = <<>>
    /\ final_rows' = <<>>
    /\ i' = 0
    /\ merge_pc' = "pass1"
    /\ UNCHANGED <<camelot_df, result_df, runs, first_result>>
    /\ UNCHANGED not_merge_vars

\* one iteration of `while i < len(camelot_df)`
Pass1Step ==
    /\ merge_pc = "pass1"
    /\ i < Len(camelot_df)
    /\ LET step == Pass1Body(camelot_df, i)
       IN  /\ merged_rows' = Append(merged_rows, step[1])
           /\ i' = step[2]
    /\ UNCHANGED <<camelot_df, merge_pc, final_rows, result_df, runs, first_result>>
    /\ UNCHANGED not_merge_vars

\* the first loop ends: `final_rows = []; i = 0`
Pass2Start ==
    /\ merge_pc = "pass1"
    /\ i >= Len(camelot_df)
    /\ final_rows' = <<>>
    /\ i' = 0
    /\ merge_pc' = "pass2"
    /\ UNCHANGED <<camelot_df, merged_rows, result_df, runs, first_result>>
    /\ UNCHANGED not_merge_vars

\* one iteration of `while i < len(merged_rows)`
Pass2Step ==
    /\ merge_pc = "pass2"
    /\ i < Len(merged_rows)
    /\ final_rows' = Pass2Body(merged_rows, final_rows, i)
    /\ i' = i + 1
    /\ UNCHANGED <<camelot_df, merge_pc, merged_rows, result_df, runs, first_result>>
    /\ UNCHANGED not_merge_vars

\* the second loop ends: `return pd.DataFrame(final_rows)`, or camelot_df
MergeReturn ==
    /\ merge_pc = "pass2"
    /\ i >= Len(merged_rows)
    /\ result_df' = IF final_rows # <<>> THEN final_rows ELSE camelot_df
    /\ merge_pc' = "returned"
    /\ UNCHANGED <<camelot_df, i, merged_rows, final_rows, runs, first_result>>
    /\ UNCHANGED not_merge_vars

\* merge_long_rows is run again on the table it returned
MergeAgain ==
    /\ merge_pc = "returned"
    /\ runs = 1
    /\ first_result' = result_df
    /\ camelot_df' = result_df
    /\ runs' = 2
    /\ merge_pc' = "call"
    /\ i' = 0
    /\ merged_rows' = <<>>
    /\ final_rows' = <<>>
    /\ result_df' = <<>>
    /\ UNCHANGED not_merge_vars

-----------------------------------------------------------------------------
(* process_table_data: one row                                             *)

dash_values == {<<"EMDASH">>, <<"-">>, <<"-", "-">>, <<"ENDASH">>, <<"HBAR">>}

\* the trailing cells the row loop pops: 'None', 'None_2', ''
PlaceholderCells == {<<"N", "o", "n", "e">>, <<"N", "o", "n", "e", "_", "2">>, <<>>}

REVENUES == <<"R", "e", "v", "e", "n", "u", "e", "s">>

DESCRIPTION == <<"D", "e", "s", "c", "r", "i", "p", "t", "i", "o", "n">>

DigitChars == <<"0", "1", "2", "3", "4", "5", "6", "7", "8", "9">>

\* str(n) of a natural number
RECURSIVE Str(_)
Str(n) ==
    IF n < 10 THEN <<DigitChars[n + 1]>>
    ELSE Str(n \div 10) \o <<DigitChars[(n % 10) + 1]>>

\* `while cells and cells[-1] in ('None', 'None_2', ''): cells.pop()`
RECURSIVE PopPlaceholders(_)
PopPlaceholders(cells) ==
    IF cells # <<>> /\ cells[Len(cells)] \in PlaceholderCells
    THEN PopPlaceholders(SubSeq(cells, 1, Len(cells) - 1))
    ELSE cells

\* row_str as first joined: the non-blank cells, trailing placeholders popped
JoinedCells(row) ==
    Join(<<" ">>, PopPlaceholders(SelectSeq(row, LAMBDA cell : Strip(cell) # <<>>)))

\* row_str = row_str.replace('$', '').strip()
DollarFree(row_str) == Strip(RemoveChar(row_str, "$"))

IsBracketShaped(part) ==
    StartsWith(part, <<"(">>) /\ EndsWith(part, <<")">>) /\ Len(part) > 2

BracketContent(part) == SubSeq(part, 2, Len(part) - 1)

\* '(' in part or ')' in part
HasParenthesis(part) == \E k \in 1..Len(part) : part[k] \in {"(", ")"}

\* clean_part that leaves the thousands commas in
CleanPart_commas(part) == Strip(RemoveChar(part, "$"))

\* clean_part
CleanPart(part) == Strip(RemoveChar(RemoveChar(part, ","), "$"))

\* the test of one part in the has_numbers loop
PartIsNumber(part) ==
    IF IsBracketShaped(part) THEN MatchDigitsCommas(BracketContent(part))
    ELSE IF ~HasParenthesis(part) THEN MatchNumber(CleanPart(part), DigitSet)
    ELSE FALSE

\* has_numbers of process_table_data
RowHasNumbers(parts) == \E k \in 1..Len(parts) : PartIsNumber(parts[k])

\* `idx = row_str.find(part); idx == 0 or row_str[idx - 1] == ' '`
BracketAtBoundary(row_str, part) ==
    LET idx == Find(row_str, part)
    IN  idx = 0 \/ row_str[idx] = " "

\* one part of the right-to-left scan: <<is_number, the value emitted>>
ScanPart(part, row_str) ==
    IF IsBracketShaped(part)
    THEN (IF MatchDigitsCommas(BracketContent(part)) /\ BracketAtBoundary(row_str, part)
          THEN <<TRUE, <<"-">> \o RemoveChar(BracketContent(part), ",")>>
          ELSE <<FALSE, <<>>>>)
    ELSE IF ~HasParenthesis(part) /\ MatchNumber(CleanPart(part), DigitSet)
    THEN <<TRUE, CleanPart(part)>>
    ELSE <<FALSE, <<>>>>

\* `while i >= 0`: <<the i the scan stops at (0-based), number_parts>>
RECURSIVE ScanRight(_, _, _, _)
ScanRight(parts, row_str, idx, number_parts) ==
    IF idx < 0 THEN <<idx, number_parts>>
    ELSE IF parts[idx + 1] \in dash_values
    THEN ScanRight(parts, row_str, idx - 1, <<<<>>>> \o number_parts)
    ELSE LET scanned == ScanPart(parts[idx + 1], row_str)
         IN  IF scanned[1]
             THEN ScanRight(parts, row_str, idx - 1, <<scanned[2]>> \o number_parts)
             ELSE <<idx, number_parts>>

\* a text row that has lost its empty value cells
TextRow_bare(row_str, ncols) == <<row_str>>

\* [row_str] + [''] * (len(df.columns) - 1)
TextRow(row_str, ncols) == <<row_str>> \o [k \in 1..(ncols - 1) |-> <<>>]

\* the body of `for index, row in df.iterrows()`: the rows it appends to
\* processed_rows, none or one
ProcessRow(row, ncols) ==
    LET joined == JoinedCells(row)
        row_str == DollarFree(joined)
        parts == Split(row_str)
    IN  IF Strip(joined) = <<>> THEN <<>>
        ELSE IF Len(parts) < 1 THEN <<>>
        ELSE IF ~RowHasNumbers(parts) THEN <<TextRow(row_str, ncols)>>
        ELSE LET scan == ScanRight(parts, row_str, Len(parts) - 1, <<>>)
                 text_parts == SubSeq(parts, 1, scan[1] + 1)
                 number_parts == scan[2]
             IN  IF text_parts = <<>> \/ number_parts = <<>>
                 THEN <<TextRow(row_str, ncols)>>
                 ELSE <<<<Join(<<" ">>, text_parts)>> \o number_parts>>

-----------------------------------------------------------------------------
(* process_table_data: the table                                           *)

\* df.empty
IsEmptyFrame(frame) == frame.rows = <<>> \/ frame.columns = <<>>

\* pd.DataFrame()
EmptyFrame == [columns |-> <<>>, rows |-> <<>>]

\* the header re-inserted as the first row when its first name holds 'Revenues'
HeaderAsRow(frame) ==
    IF Contains(frame.columns[1], REVENUES)
    THEN [columns |-> [k \in 1..Len(frame.columns) |-> <<"c", "o", "l", "_">> \o Str(k - 1)],
          rows |-> <<frame.columns>> \o frame.rows]
    ELSE frame

\* max(len(row) for row in processed_rows)
MaxCols(rows) == SetMax({Len(rows[k]) : k \in 1..Len(rows)})

\* ['Description', 'Value_1', ...]
ColumnNames(max_cols) ==
    [k \in 1..max_cols |->
        IF k = 1 THEN DESCRIPTION ELSE <<"V", "a", "l", "u", "e", "_">> \o Str(k - 1)]

\* a row handed on without its padding
PaddedRow_unpadded(row, max_cols) == row

\* row + [''] * (max_cols - len(row))
PaddedRow(row, max_cols) == row \o [k \in 1..(max_cols - Len(row)) |-> <<>>]

\* pd.DataFrame(padded_rows, columns=column_names)
PaddedFrame(rows) ==
    [columns |-> ColumnNames(MaxCols(rows)),
     rows |-> [k \in 1..Len(rows) |-> PaddedRow(rows[k], MaxCols(rows))]]

\* the header names applied one header short of the value columns
WithHeaderNames_short(frame, years) ==
    IF years # <<>> /\ Len(years) >= Len(frame.columns) - 2
    THEN [frame EXCEPT !.columns =
              <<DESCRIPTION>> \o
                  SubSeq(years, 1, IF Len(years) < Len(frame.columns) - 1
                                   THEN Len(years) ELSE Len(frame.columns) - 1)]
    ELSE frame

\* the header names applied in extract_table_from_page
WithHeaderNames(frame, years) ==
    IF years # <<>> /\ Len(years) >= Len(frame.columns) - 1
    THEN [frame EXCEPT !.columns = <<DESCRIPTION>> \o SubSeq(years, 1, Len(frame.columns) - 1)]
    ELSE frame

\* `if df.empty: return df`
PtdEmpty ==
    /\ ptd_pc = "call"
    /\ IsEmptyFrame(ptd_df)
    /\ ptd_result' = ptd_df
    /\ ptd_pc' = "returned"
    /\ UNCHANGED <<ptd_df, df, row_index, processed_rows, header_years, table_df>>
    /\ UNCHANGED not_ptd_vars

\* the header check, then `processed_rows = []`
PtdStart ==
    /\ ptd_pc = "call"
    /\ ~IsEmptyFrame(ptd_df)
    /\ df' = HeaderAsRow(ptd_df)
    /\ processed_rows' = <<>>
    /\ row_index' = 0
    /\ ptd_pc' = "rows"
    /\ UNCHANGED <<ptd_df, ptd_result, header_years, table_df>>
    /\ UNCHANGED not_ptd_vars

\* one iteration of `for index, row in df.iterrows()`
PtdRow ==
    /\ ptd_pc = "rows"
    /\ row_index < Len(df.rows)
    /\ processed_rows' =
           processed_rows \o ProcessRow(df.rows[row_index + 1], Len(df.columns))
    /\ row_index' = row_index + 1
    /\ UNCHANGED <<ptd_df, df, ptd_pc, ptd_result, header_years, table_df>>
    /\ UNCHANGED not_ptd_vars

\* the loop ends: `return df` when no row was built, else the padded table
PtdReturn ==
    /\ ptd_pc = "rows"
    /\ row_index >= Len(df.rows)
    /\ ptd_result' = IF processed_rows = <<>> THEN df ELSE PaddedFrame(processed_rows)
    /\ ptd_pc' = "returned"
    /\ UNCHANGED <<ptd_df, df, row_index, processed_rows, header_years, table_df>>
    /\ UNCHANGED not_ptd_vars

\* extract_table_from_page renames the columns of the table it was given
ApplyHeaderNames ==
    /\ ptd_pc = "returned"
    /\ ~IsEmptyFrame(ptd_result)
    /\ table_df' = WithHeaderNames(ptd_result, header_years)
    /\ ptd_pc' = "named"
    /\ UNCHANGED <<ptd_df, df, row_index, processed_rows, ptd_result, header_years>>
    /\ UNCHANGED not_ptd_vars

-----------------------------------------------------------------------------
(* FinancialStatementValidator: numbers, rows, statements                  *)

DESCRIPTION_KEY == "Description"

\* the value of a string of decimal digits
RECURSIVE DigitsValue(_)
DigitsValue(s) ==
    IF s = <<>> THEN 0
    ELSE 10 * DigitsValue(SubSeq(s, 1, Len(s) - 1))
             + (CHOOSE d \in 0..9 : DigitChars[d + 1] = s[Len(s)])

\* float(clean_value) for a numeral without fraction or exponent, the only
\* numerals the statements drawn hold: <<accepted, value>>; not accepted is
\* the ValueError
ParseFloat(s) ==
    LET t == Strip(s)
        signed == t # <<>> /\ t[1] \in {"-", "+"}
        body == IF signed THEN Tail(t) ELSE t
    IN  IF body # <<>> /\ \A k \in 1..Len(body) : body[k] \in DigitSet
        THEN <<TRUE,
            IF signed /\ t[1] = "-" THEN 0 - DigitsValue(body) ELSE DigitsValue(body)>>
        ELSE <<FALSE, 0>>

\* normalize_number
normalize_number(value) ==
    IF value = <<>> \/ value = NAN THEN 0
    ELSE LET stripped == SelectSeq(value, LAMBDA ch : ch \notin {"$", ",", "(", ")"})
             clean_value == IF (\E k \in 1..Len(value) : value[k] = "(")
                               /\ (\E k \in 1..Len(value) : value[k] = ")")
                            THEN <<"-">> \o stripped
                            ELSE stripped
         IN  IF ParseFloat(clean_value)[1] THEN ParseFloat(clean_value)[2] ELSE 0

\* self.normalize_number(row.get(col, 0)): the default 0 is falsy and gives 0.0
CellNumber(row, col) == IF col \in DOMAIN row THEN normalize_number(row[col]) ELSE 0

\* row.get('Description', '')
RowDescription(row) == IF DESCRIPTION_KEY \in DOMAIN row THEN row[DESCRIPTION_KEY] ELSE <<>>

\* get_value_columns
get_value_columns(statement) ==
    SelectSeq(statement.headers, LAMBDA col : col # DESCRIPTION_KEY)

\* sum(self.normalize_number(row.get(col, 0)) for col in value_cols)
RECURSIVE SumCells(_, _)
SumCells(row, cols) ==
    IF cols = <<>> THEN 0 ELSE CellNumber(row, Head(cols)) + SumCells(row, Tail(cols))

RowTotal(statement, row) == SumCells(row, get_value_columns(statement))

\* get_statement_by_name: the index of the first statement whose name holds
\* the keyword or is held by it, 0 for None
get_statement_by_name(stmts, name) ==
    LET found == {k \in 1..Len(stmts) :
                     \/ Contains(Upper(name), Upper(stmts[k].name))
                     \/ Contains(Upper(stmts[k].name), Upper(name))}
    IN  IF found = {} THEN 0 ELSE SetMin(found)

\* find_row_by_description: the index of the first row whose description holds
\* one of the keywords, 0 for None
find_row_by_description(statement, description_keywords) ==
    LET found == {k \in 1..Len(statement.tableData) :
                     \E keyword \in description_keywords :
                         Contains(Lower(RowDescription(statement.tableData[k])),
                                  Lower(keyword))}
    IN  IF found = {} THEN 0 ELSE SetMin(found)

\* the summed value of the row found for the keywords, 0 when there is none
FoundTotal(statement, description_keywords) ==
    LET k == find_row_by_description(statement, description_keywords)
    IN  IF k = 0 THEN 0 ELSE RowTotal(statement, statement.tableData[k])

HasRow(statement, description_keywords) ==
    find_row_by_description(statement, description_keywords) # 0

Abs(x) == IF x < 0 THEN 0 - x ELSE x

tolerance == 1000

\* the dict with the difference left signed
Reconciliation_signed(calculated, reported) ==
    [calculated |-> calculated,
     reported |-> reported,
     difference |-> calculated - reported,
     matches |-> calculated - reported < tolerance]

\* the dict both calculations return
Reconciliation(calculated, reported) ==
    [calculated |-> calculated,
     reported |-> reported,
     difference |-> Abs(calculated - reported),
     matches |-> Abs(calculated - reported) < tolerance]

\* the dict returned when the total row is not found
NotFoundReconciliation ==
    [calculated |-> 0, reported |-> 0, difference |-> 0, matches |-> FALSE]

-----------------------------------------------------------------------------
(* calculate_total_assets, calculate_total_liabilities_equity              *)

TOTAL_ASSETS == <<"t", "o", "t", "a", "l", " ", "a", "s", "s", "e", "t", "s">>

TOTAL == <<"t", "o", "t", "a", "l">>

asset_section_labels ==
    {<<"a", "s", "s", "e", "t", "s">>, <<"c", "u", "r", "r", "e", "n", "t", " ", "a",
        "s", "s", "e", "t", "s", ":">>, <<"l", "i", "a", "b", "i", "l", "i", "t", "i",
        "e", "s", " ", "a", "n", "d", " ", "s", "t", "o", "c", "k", "h", "o", "l", "d",
        "e", "r", "s", "'", " ", "e", "q", "u", "i", "t", "y">>}

\* a row total enters the asset sum whatever its sign
AssetRowCounts_signed(row_total) == row_total # 0

\* `if row_total > 0`
AssetRowCounts(row_total) == row_total > 0

\* the second loop of calculate_total_assets from row k on
RECURSIVE SumAssetRows(_, _, _)
SumAssetRows(statement, k, calculated_total) ==
    IF k > Len(statement.tableData) THEN calculated_total
    ELSE LET row == statement.tableData[k]
             desc == Lower(RowDescription(row))
             row_total == RowTotal(statement, row)
         IN  IF Contains(desc, TOTAL_ASSETS) THEN calculated_total
             ELSE IF Contains(desc, TOTAL) THEN SumAssetRows(statement, k + 1,
                 calculated_total)
             ELSE IF desc = <<>> \/ desc \in asset_section_labels
             THEN SumAssetRows(statement, k + 1, calculated_total)
             ELSE IF AssetRowCounts(row_total)
             THEN SumAssetRows(statement, k + 1, calculated_total + row_total)
             ELSE SumAssetRows(statement, k + 1, calculated_total)

calculate_total_assets(balance_sheet) ==
    LET k == find_row_by_description(balance_sheet, {TOTAL_ASSETS})
    IN  IF k = 0 THEN NotFoundReconciliation
        ELSE Reconciliation(SumAssetRows(balance_sheet, 1, 0),
                            RowTotal(balance_sheet, balance_sheet.tableData[k]))

final_total_keywords ==
    {<<"t", "o", "t", "a", "l", " ", "l", "i", "a", "b", "i", "l", "i", "t", "i", "e",
        "s", " ", "a", "n", "d", " ", "s", "t", "o", "c", "k", "h", "o", "l", "d", "e",
        "r", "s">>, <<"t", "o", "t", "a", "l", " ", "l", "i", "a", "b", "i", "l", "i",
        "t", "i", "e", "s", " ", "a", "n", "d", " ", "e", "q", "u", "i", "t", "y">>}

LIABILITIES_AND_STOCKHOLDERS == <<"l", "i", "a", "b", "i", "l", "i", "t", "i", "e",
    "s", " ", "a", "n", "d", " ", "s", "t", "o", "c", "k", "h", "o", "l", "d", "e",
    "r", "s">>

LIABILITIES_AND_EQUITY == <<"l", "i", "a", "b", "i", "l", "i", "t", "i", "e", "s", " ",
    "a", "n", "d", " ", "e", "q", "u", "i", "t", "y">>

liability_section_labels == {<<"c", "u", "r", "r", "e", "n", "t", " ", "l", "i", "a",
    "b", "i", "l", "i", "t", "i", "e", "s", ":">>, <<"s", "t", "o", "c", "k", "h", "o",
    "l", "d", "e", "r", "s", "'", " ", "e", "q", "u", "i", "t", "y", ":">>}

COMMITMENTS_AND_CONTINGENCIES == <<"c", "o", "m", "m", "i", "t", "m", "e", "n", "t",
    "s", " ", "a", "n", "d", " ", "c", "o", "n", "t", "i", "n", "g", "e", "n", "c",
    "i", "e", "s">>

IsFinalTotal(desc) == \E keyword \in final_total_keywords : Contains(desc, keyword)

\* the second loop of calculate_total_liabilities_equity from row k on; the
\* section test comes first and ends the iteration with `continue`
RECURSIVE SumLiabilityRows(_, _, _, _)
SumLiabilityRows(statement, k, in_liabilities_section, calculated_total) ==
    IF k > Len(statement.tableData) THEN calculated_total
    ELSE LET row == statement.tableData[k]
             desc == Lower(RowDescription(row))
             row_total == RowTotal(statement, row)
         IN  IF Contains(desc, LIABILITIES_AND_STOCKHOLDERS)
                \/ Contains(desc, LIABILITIES_AND_EQUITY)
             THEN SumLiabilityRows(statement, k + 1, TRUE, calculated_total)
             ELSE IF IsFinalTotal(desc) THEN calculated_total
             ELSE IF ~in_liabilities_section
             THEN SumLiabilityRows(statement, k + 1, in_liabilities_section,
                 calculated_total)
             ELSE IF Contains(desc, TOTAL)
             THEN SumLiabilityRows(statement, k + 1, in_liabilities_section,
                 calculated_total)
             ELSE IF desc = <<>> \/ desc \in liability_section_labels
             THEN SumLiabilityRows(statement, k + 1, in_liabilities_section,
                 calculated_total)
             ELSE IF Contains(desc, COMMITMENTS_AND_CONTINGENCIES)
             THEN SumLiabilityRows(statement, k + 1, in_liabilities_section,
                 calculated_total)
             ELSE IF row_total # 0
             THEN SumLiabilityRows(statement, k + 1, in_liabilities_section,
                                   calculated_total + row_total)
             ELSE SumLiabilityRows(statement, k + 1, in_liabilities_section,
                 calculated_total)

calculate_total_liabilities_equity(balance_sheet) ==
    LET k == find_row_by_description(balance_sheet, final_total_keywords)
    IN  IF k = 0 THEN NotFoundReconciliation
        ELSE Reconciliation(SumLiabilityRows(balance_sheet, 1, FALSE, 0),
                            RowTotal(balance_sheet, balance_sheet.tableData[k]))

-----------------------------------------------------------------------------
(* The three validators. A ratio test `a / b <= c` on b > 0 is written without *)
(* the division, the numerals drawn being whole numbers.                     *)

BALANCE == <<"B", "A", "L", "A", "N", "C", "E">>

INCOME == <<"I", "N", "C", "O", "M", "E">>

CASH == <<"C", "A", "S", "H">>

\* {f'..._{i}': False for i in range(1, n + 1)}
AllFalse(n) == [k \in 1..n |-> FALSE]

\* check 1 taken on the re-summed totals instead of the reported ones
BalanceEquation_calculated(total_assets, total_liab_equity) ==
    Abs(total_assets.calculated - total_liab_equity.calculated) < tolerance

\* check 1: abs(total_assets['reported'] - total_liab_equity['reported']) < 1000
BalanceEquation(total_assets, total_liab_equity) ==
    Abs(total_assets.reported - total_liab_equity.reported) < tolerance

\* the value an absence-tolerant check takes when its rows are absent, inverted
AbsentDefault_false == FALSE

\* `results[...] = True  # No ... is fine`
AbsentDefault == TRUE

\* checks 5, 6, 7: the row's share of the reported total assets is at most num/den
ShareOfAssets(sheet, keyword, reported, num, den) ==
    IF HasRow(sheet, {keyword}) /\ reported > 0
    THEN den * FoundTotal(sheet, {keyword}) <= num * reported
    ELSE AbsentDefault

\* validate_balance_sheet_checks on the statement found
BalanceChecks(sheet) ==
    LET total_assets == calculate_total_assets(sheet)
        total_liab_equity == calculate_total_liabilities_equity(sheet)
        reported == total_assets.reported
        cash == FoundTotal(sheet, {<<"C", "a", "s", "h", " ", "a", "n", "d", " ", "c",
            "a", "s", "h", " ", "e", "q", "u", "i", "v", "a", "l", "e", "n", "t",
            "s">>})
        total_debt == FoundTotal(sheet, {<<"L", "o", "n", "g", "-", "t", "e", "r", "m",
            " ", "d", "e", "b", "t">>})
                          + FoundTotal(sheet, {<<"T", "o", "t", "a", "l", " ", "l",
                              "i", "a", "b", "i", "l", "i", "t", "i", "e", "s">>})
    IN  << BalanceEquation(total_assets, total_liab_equity),
           IF HasRow(sheet, {<<"T", "o", "t", "a", "l", " ", "c", "u", "r", "r", "e",
               "n", "t", " ", "a", "s", "s", "e", "t", "s">>})
              /\ HasRow(sheet, {<<"T", "o", "t", "a", "l", " ", "c", "u", "r", "r",
                  "e", "n", "t", " ", "l", "i", "a", "b", "i", "l", "i", "t", "i", "e",
                  "s">>})
           THEN FoundTotal(sheet, {<<"T", "o", "t", "a", "l", " ", "c", "u", "r", "r",
               "e", "n", "t", " ", "a", "s", "s", "e", "t", "s">>})
                    > FoundTotal(sheet, {<<"T", "o", "t", "a", "l", " ", "c", "u", "r",
                        "r", "e", "n", "t", " ", "l", "i", "a", "b", "i", "l", "i",
                        "t", "i", "e", "s">>})
           ELSE FALSE,
           IF HasRow(sheet, {<<"C", "a", "s", "h", " ", "a", "n", "d", " ", "c", "a",
               "s", "h", " ", "e", "q", "u", "i", "v", "a", "l", "e", "n", "t",
               "s">>}) /\ reported > 0
           THEN reported <= 20 * cash /\ 10 * cash <= 3 * reported
           ELSE FALSE,
           IF HasRow(sheet, {<<"A", "c", "c", "o", "u", "n", "t", "s", " ", "r", "e",
               "c", "e", "i", "v", "a", "b", "l", "e">>}) /\ reported > 0
           THEN 5 * FoundTotal(sheet, {<<"A", "c", "c", "o", "u", "n", "t", "s", " ",
               "r", "e", "c", "e", "i", "v", "a", "b", "l", "e">>}) <= reported
           ELSE FALSE,
           ShareOfAssets(sheet, <<"I", "n", "v", "e", "n", "t", "o", "r", "y">>,
               reported, 3, 10),
           ShareOfAssets(sheet, <<"P", "r", "o", "p", "e", "r", "t", "y", " ", "a",
               "n", "d", " ", "e", "q", "u", "i", "p", "m", "e", "n", "t">>, reported,
               3, 5),
           ShareOfAssets(sheet, <<"G", "o", "o", "d", "w", "i", "l", "l">>, reported,
               2, 5),
           IF total_debt > 0 /\ reported > 0
           THEN 10 * total_debt <= 7 * reported
           ELSE AbsentDefault,
           IF HasRow(sheet, {<<"R", "e", "t", "a", "i", "n", "e", "d", " ", "e", "a",
               "r", "n", "i", "n", "g", "s">>})
           THEN FoundTotal(sheet, {<<"R", "e", "t", "a", "i", "n", "e", "d", " ", "e",
               "a", "r", "n", "i", "n", "g", "s">>}) >= 0
           ELSE FALSE >>

validate_balance_sheet_checks(stmts) ==
    LET k == get_statement_by_name(stmts, BALANCE)
    IN  IF k = 0 THEN AllFalse(9) ELSE BalanceChecks(stmts[k])

revenue_keywords == {<<"R", "e", "v", "e", "n", "u", "e", "s">>, <<"R", "e", "v", "e",
    "n", "u", "e">>}

cost_keywords == {<<"C", "o", "s", "t", " ", "o", "f", " ", "r", "e", "v", "e", "n",
    "u", "e", "s">>, <<"C", "o", "s", "t", " ", "o", "f", " ", "s", "a", "l", "e",
    "s">>}

op_income_keywords == {<<"I", "n", "c", "o", "m", "e", " ", "f", "r", "o", "m", " ",
    "o", "p", "e", "r", "a", "t", "i", "o", "n", "s">>, <<"O", "p", "e", "r", "a", "t",
    "i", "n", "g", " ", "i", "n", "c", "o", "m", "e">>}

interest_keywords == {<<"I", "n", "t", "e", "r", "e", "s", "t", " ", "e", "x", "p",
    "e", "n", "s", "e">>, <<"I", "n", "t", "e", "r", "e", "s", "t">>}

tax_keywords == {<<"P", "r", "o", "v", "i", "s", "i", "o", "n", " ", "f", "o", "r",
    " ", "i", "n", "c", "o", "m", "e", " ", "t", "a", "x", "e", "s">>, <<"I", "n", "c",
    "o", "m", "e", " ", "t", "a", "x", "e", "s">>}

NET_INCOME == <<"N", "e", "t", " ", "i", "n", "c", "o", "m", "e">>

eps_keywords == {<<"B", "a", "s", "i", "c", " ", "n", "e", "t", " ", "i", "n", "c",
    "o", "m", "e", " ", "p", "e", "r", " ", "s", "h", "a", "r", "e">>, <<"D", "i", "l",
    "u", "t", "e", "d", " ", "n", "e", "t", " ", "i", "n", "c", "o", "m", "e", " ",
    "p", "e", "r", " ", "s", "h", "a", "r", "e">>}

\* check 6 divides by tax + net_income, which can be zero
IncomeChecksRaise(stmt) ==
    /\ HasRow(stmt, tax_keywords)
    /\ HasRow(stmt, {NET_INCOME})
    /\ FoundTotal(stmt, {NET_INCOME}) > 0
    /\ FoundTotal(stmt, tax_keywords) + FoundTotal(stmt, {NET_INCOME}) = 0

\* validate_income_statement_checks on the statement found
IncomeChecks(stmt) ==
    LET value_cols == get_value_columns(stmt)
        revenue_row == find_row_by_description(stmt, revenue_keywords)
        revenue == FoundTotal(stmt, revenue_keywords)
        cost == FoundTotal(stmt, cost_keywords)
        total_op_expenses == FoundTotal(stmt, {<<"R", "e", "s", "e", "a", "r", "c",
            "h", " ", "a", "n", "d", " ", "d", "e", "v", "e", "l", "o", "p", "m", "e",
            "n", "t">>})
                                 + FoundTotal(stmt, {<<"S", "a", "l", "e", "s", " ",
                                     "a", "n", "d", " ", "m", "a", "r", "k", "e", "t",
                                     "i", "n", "g">>})
                                 + FoundTotal(stmt, {<<"G", "e", "n", "e", "r", "a",
                                     "l", " ", "a", "n", "d", " ", "a", "d", "m", "i",
                                     "n", "i", "s", "t", "r", "a", "t", "i", "v",
                                     "e">>})
        op_income == FoundTotal(stmt, op_income_keywords)
        interest == FoundTotal(stmt, interest_keywords)
        tax == FoundTotal(stmt, tax_keywords)
        net_income == FoundTotal(stmt, {NET_INCOME})
    IN  << revenue_row # 0
              /\ \E c \in 1..Len(value_cols) :
                     CellNumber(stmt.tableData[revenue_row], value_cols[c]) > 0,
           IF revenue_row # 0 /\ HasRow(stmt, cost_keywords)
           THEN revenue > 0 /\ revenue <= 10 * (revenue - cost)
                            /\ 10 * (revenue - cost) <= 9 * revenue
           ELSE FALSE,
           IF revenue_row # 0 /\ total_op_expenses > 0
           THEN revenue > 0 /\ 5 * total_op_expenses <= 4 * revenue
           ELSE AbsentDefault,
           IF HasRow(stmt, op_income_keywords) /\ revenue_row # 0
           THEN revenue > 0 /\ 0 - revenue <= 5 * op_income /\ 2 * op_income <= revenue
           ELSE FALSE,
           IF HasRow(stmt, interest_keywords) /\ HasRow(stmt, op_income_keywords)
           THEN (IF interest > 0 THEN 3 * interest <= 2 * op_income ELSE TRUE)
           ELSE AbsentDefault,
           IF HasRow(stmt, tax_keywords) /\ HasRow(stmt, {NET_INCOME})
           THEN net_income > 0
                /\ (IF tax + net_income > 0
                    THEN tax + net_income <= 10 * tax /\ 2 * tax <= tax + net_income
                    ELSE 10 * tax <= tax + net_income /\ tax + net_income <= 2 * tax)
           ELSE FALSE,
           IF HasRow(stmt, {NET_INCOME}) THEN net_income > 0 ELSE FALSE,
           HasRow(stmt, eps_keywords) >>

validate_income_statement_checks(stmts) ==
    LET k == get_statement_by_name(stmts, INCOME)
    IN  IF k = 0 THEN AllFalse(8) ELSE IncomeChecks(stmts[k])

OPERATING_CASH == <<"N", "e", "t", " ", "c", "a", "s", "h", " ", "p", "r", "o", "v",
    "i", "d", "e", "d", " ", "b", "y", " ", "o", "p", "e", "r", "a", "t", "i", "n",
    "g", " ", "a", "c", "t", "i", "v", "i", "t", "i", "e", "s">>

CAPEX == <<"P", "u", "r", "c", "h", "a", "s", "e", "s", " ", "o", "f", " ", "p", "r",
    "o", "p", "e", "r", "t", "y", " ", "a", "n", "d", " ", "e", "q", "u", "i", "p",
    "m", "e", "n", "t">>

\* checks 3, 5, 6: the outflow is at most num/den of the operating cash flow
ShareOfOperatingCash(stmt, keyword, num, den) ==
    IF HasRow(stmt, {keyword}) /\ HasRow(stmt, {OPERATING_CASH})
    THEN FoundTotal(stmt, {OPERATING_CASH}) > 0
         /\ den * Abs(FoundTotal(stmt, {keyword})) <= num * FoundTotal(stmt,
             {OPERATING_CASH})
    ELSE AbsentDefault

\* validate_cash_flow_checks on the statement found
CashFlowChecks(stmt) ==
    LET op_cf == FoundTotal(stmt, {OPERATING_CASH})
        has_op_cf == HasRow(stmt, {OPERATING_CASH})
        total_debt_activity == Abs(FoundTotal(stmt, {<<"P", "r", "o", "c", "e", "e",
            "d", "s", " ", "f", "r", "o", "m", " ", "i", "s", "s", "u", "a", "n", "c",
            "e", " ", "o", "f", " ", "d", "e", "b", "t">>}))
                                   + Abs(FoundTotal(stmt, {<<"R", "e", "p", "a", "y",
                                       "m", "e", "n", "t", "s", " ", "o", "f", " ",
                                       "d", "e", "b", "t">>}))
    IN  << IF has_op_cf THEN op_cf > 0 ELSE FALSE,
           IF has_op_cf /\ HasRow(stmt, {NET_INCOME})
           THEN op_cf > FoundTotal(stmt, {NET_INCOME})
           ELSE FALSE,
           ShareOfOperatingCash(stmt, CAPEX, 1, 1),
           IF has_op_cf /\ HasRow(stmt, {CAPEX})
           THEN op_cf - Abs(FoundTotal(stmt, {CAPEX})) > 0
           ELSE FALSE,
           ShareOfOperatingCash(stmt, <<"D", "i", "v", "i", "d", "e", "n", "d", " ",
               "p", "a", "y", "m", "e", "n", "t", "s">>, 1, 2),
           ShareOfOperatingCash(stmt, <<"R", "e", "p", "u", "r", "c", "h", "a", "s",
               "e", "s", " ", "o", "f", " ", "s", "t", "o", "c", "k">>, 7, 10),
           IF has_op_cf /\ total_debt_activity > 0
           THEN op_cf > 0 /\ total_debt_activity <= op_cf
           ELSE AbsentDefault,
           IF HasRow(stmt, {<<"C", "a", "s", "h", " ", "a", "n", "d", " ", "c", "a",
               "s", "h", " ", "e", "q", "u", "i", "v", "a", "l", "e", "n", "t", "s",
               " ", "a", "t", " ", "e", "n", "d", " ", "o", "f", " ", "p", "e", "r",
               "i", "o", "d">>})
              /\ HasRow(stmt, {<<"C", "a", "s", "h", " ", "a", "n", "d", " ", "c", "a",
                  "s", "h", " ", "e", "q", "u", "i", "v", "a", "l", "e", "n", "t", "s",
                  " ", "a", "t", " ", "b", "e", "g", "i", "n", "n", "i", "n", "g", " ",
                  "o", "f", " ", "p", "e", "r", "i", "o", "d">>})
           THEN Abs(FoundTotal(stmt, {<<"C", "a", "s", "h", " ", "a", "n", "d", " ",
               "c", "a", "s", "h", " ", "e", "q", "u", "i", "v", "a", "l", "e", "n",
               "t", "s", " ", "a", "t", " ", "e", "n", "d", " ", "o", "f", " ", "p",
               "e", "r", "i", "o", "d">>})
                    - FoundTotal(stmt, {<<"C", "a", "s", "h", " ", "a", "n", "d", " ",
                        "c", "a", "s", "h", " ", "e", "q", "u", "i", "v", "a", "l",
                        "e", "n", "t", "s", " ", "a", "t", " ", "b", "e", "g", "i",
                        "n", "n", "i", "n", "g", " ", "o", "f", " ", "p", "e", "r",
                        "i", "o", "d">>}))
                    < 1000000
           ELSE FALSE >>

validate_cash_flow_checks(stmts) ==
    LET k == get_statement_by_name(stmts, CASH)
    IN  IF k = 0 THEN AllFalse(8) ELSE CashFlowChecks(stmts[k])

\* whether a row for one of the keywords is found in the statement at index k
Found(stmts, k, description_keywords) ==
    k # 0 /\ HasRow(stmts[k], description_keywords)

\* validate_cross_statement_checks: checks 1 to 8
validate_cross_statement_checks(stmts) ==
    LET balance_sheet == get_statement_by_name(stmts, BALANCE)
        income_statement == get_statement_by_name(stmts, INCOME)
        cash_flow == get_statement_by_name(stmts, CASH)
        RETAINED == <<"R", "e", "t", "a", "i", "n", "e", "d", " ", "e", "a", "r", "n",
            "i", "n", "g", "s">>
        DEPRECIATION == <<"D", "e", "p", "r", "e", "c", "i", "a", "t", "i", "o", "n">>
        SBC == <<"S", "t", "o", "c", "k", "-", "b", "a", "s", "e", "d", " ", "c", "o",
            "m", "p", "e", "n", "s", "a", "t", "i", "o", "n">>
    IN  << IF Found(stmts, income_statement, {NET_INCOME})
              /\ Found(stmts, balance_sheet, {RETAINED})
           THEN FoundTotal(stmts[income_statement], {NET_INCOME}) > 0
                /\ FoundTotal(stmts[balance_sheet], {RETAINED}) > 0
           ELSE FALSE,
           Found(stmts, income_statement, {DEPRECIATION})
               /\ Found(stmts, cash_flow, {DEPRECIATION}),
           cash_flow # 0 /\ balance_sheet # 0
               /\ (Found(stmts, cash_flow, {<<"D", "i", "v", "i", "d", "e", "n", "d",
                   " ", "p", "a", "y", "m", "e", "n", "t", "s">>})
                   \/ Found(stmts, balance_sheet, {RETAINED})),
           Found(stmts, cash_flow, {CAPEX})
               /\ Found(stmts, balance_sheet, {<<"P", "r", "o", "p", "e", "r", "t",
                   "y", " ", "a", "n", "d", " ", "e", "q", "u", "i", "p", "m", "e",
                   "n", "t">>}),
           Found(stmts, cash_flow, {<<"P", "r", "o", "c", "e", "e", "d", "s", " ", "f",
               "r", "o", "m", " ", "i", "s", "s", "u", "a", "n", "c", "e", " ", "o",
               "f", " ", "d", "e", "b", "t">>, <<"R", "e", "p", "a", "y", "m", "e",
               "n", "t", "s", " ", "o", "f", " ", "d", "e", "b", "t">>})
               /\ Found(stmts, balance_sheet, {<<"L", "o", "n", "g", "-", "t", "e",
                   "r", "m", " ", "d", "e", "b", "t">>, <<"T", "o", "t", "a", "l", " ",
                   "l", "i", "a", "b", "i", "l", "i", "t", "i", "e", "s">>}),
           Found(stmts, balance_sheet, {<<"T", "o", "t", "a", "l", " ", "c", "u", "r",
               "r", "e", "n", "t", " ", "a", "s", "s", "e", "t", "s">>})
               /\ Found(stmts, balance_sheet, {<<"T", "o", "t", "a", "l", " ", "c",
                   "u", "r", "r", "e", "n", "t", " ", "l", "i", "a", "b", "i", "l",
                   "i", "t", "i", "e", "s">>}),
           Found(stmts, income_statement, {<<"P", "r", "o", "v", "i", "s", "i", "o",
               "n", " ", "f", "o", "r", " ", "i", "n", "c", "o", "m", "e", " ", "t",
               "a", "x", "e", "s">>})
               /\ Found(stmts, cash_flow, {<<"I", "n", "c", "o", "m", "e", " ", "t",
                   "a", "x", "e", "s", ",", " ", "n", "e", "t">>}),
           income_statement # 0 /\ cash_flow # 0
               /\ (Found(stmts, income_statement, {SBC})
                   \/ Found(stmts, cash_flow, {SBC})) >>

ValidateBalanceSheet ==
    /\ val_pc = "balance"
    /\ balance_checks' = validate_balance_sheet_checks(statements)
    /\ val_pc' = "income"
    /\ UNCHANGED <<statements, income_checks, cash_flow_checks, cross_statement_checks,
                   balance_sheet_totals, summary>>
    /\ UNCHANGED not_val_vars

ValidateIncomeStatement ==
    /\ val_pc = "income"
    /\ LET k == get_statement_by_name(statements, INCOME)
       IN  IF k # 0 /\ IncomeChecksRaise(statements[k])
           THEN val_pc' = "raised" /\ UNCHANGED income_checks
           ELSE /\ income_checks' = validate_income_statement_checks(statements)
                /\ val_pc' = "cash_flow"
    /\ UNCHANGED <<statements, balance_checks, cash_flow_checks, cross_statement_checks,
                   balance_sheet_totals, summary>>
    /\ UNCHANGED not_val_vars

ValidateCashFlow ==
    /\ val_pc = "cash_flow"
    /\ cash_flow_checks' = validate_cash_flow_checks(statements)
    /\ val_pc' = "cross_statement"
    /\ UNCHANGED <<statements, balance_checks, income_checks, cross_statement_checks,
                   balance_sheet_totals, summary>>
    /\ UNCHANGED not_val_vars

\* validate_all_checks: the fourth group of checks
ValidateCrossStatement ==
    /\ val_pc = "cross_statement"
    /\ cross_statement_checks' = validate_cross_statement_checks(statements)
    /\ val_pc' = "totals"
    /\ UNCHANGED <<statements, balance_checks, income_checks, cash_flow_checks,
                   balance_sheet_totals, summary>>
    /\ UNCHANGED not_val_vars

\* the number of checks of a group that passed
RECURSIVE PassedIn(_)
PassedIn(results) ==
    IF results = <<>> THEN 0
    ELSE (IF Head(results) THEN 1 ELSE 0) + PassedIn(Tail(results))

\* round(passed / total * 100, 1), in tenths of a percent
PassRate(passed_checks, total_checks) ==
    IF total_checks > 0
    THEN (2000 * passed_checks + total_checks) \div (2 * total_checks)
    ELSE 0

\* the summary statistics of validate_all_checks
Summary(all_results) ==
    LET total_checks == Len(all_results)
        passed_checks == PassedIn(all_results)
    IN  [total_checks |-> total_checks,
         passed_checks |-> passed_checks,
         failed_checks |-> total_checks - passed_checks,
         pass_rate |-> PassRate(passed_checks, total_checks)]

\* validate_all_checks: the totals for the balance sheet verification and the
\* summary of the four groups
BalanceSheetTotals ==
    /\ val_pc = "totals"
    /\ LET k == get_statement_by_name(statements, BALANCE)
       IN  balance_sheet_totals' =
               IF k = 0 THEN <<>>
               ELSE <<[assets |-> calculate_total_assets(statements[k]),
                       liabilities_equity |->
                           calculate_total_liabilities_equity(statements[k])]>>
    /\ summary' = <<Summary(balance_checks \o income_checks \o cash_flow_checks
                             \o cross_statement_checks)>>
    /\ val_pc' = "done"
    /\ UNCHANGED <<statements, balance_checks, income_checks, cash_flow_checks,
                   cross_statement_checks>>
    /\ UNCHANGED not_val_vars

-----------------------------------------------------------------------------
(* extract_header_info                                                     *)

\* what the regular expression class \w matches
WordChars == LowerSet \cup UpperSet \cup DigitSet \cup {"_"}

\* the members of a set of numbers, smallest first
Ascending(S) ==
    [n \in 1..Cardinality(S) |-> CHOOSE x \in S : Cardinality({y \in S : y < x}) = n - 1]

\* the character of s at place n, "" past the end
CharAt(s, n) == IF n >= 1 /\ n <= Len(s) THEN s[n] ELSE ""

\* the first place from p on that holds no white space, Len(s) + 1 if none
SkipSpace(s, p) ==
    LET inked == {e \in p..Len(s) : s[e] \notin ReSpace}
    IN  IF inked = {} THEN Len(s) + 1 ELSE SetMin(inked)

\* re.search(r'(ended|as of)', line, re.IGNORECASE)
IsAnchorLine(line) ==
    Contains(Lower(line), <<"e", "n", "d", "e", "d">>) \/ Contains(Lower(line), <<"a",
        "s", " ", "o", "f">>)

\* 20\d{2} matches at place k of s
YearAt(s, k) ==
    /\ k + 3 <= Len(s)
    /\ s[k] = "2"
    /\ s[k + 1] = "0"
    /\ s[k + 2] \in DigitSet
    /\ s[k + 3] \in DigitSet

\* the places where \b(20\d{2})\b matches in s
YearStarts(s) ==
    {k \in 1..Len(s) :
        /\ YearAt(s, k)
        /\ CharAt(s, k - 1) \notin WordChars
        /\ CharAt(s, k + 4) \notin WordChars}

\* re.findall(r'\b(20\d{2})\b', s)
FindYears(s) ==
    LET starts == Ascending(YearStarts(s))
    IN  [n \in 1..Len(starts) |-> SubSeq(s, starts[n], starts[n] + 3)]

\* where [A-Za-z]+ \d{1,2}, \d{4} ends when it matches at place p of s, else 0
DateEnd(s, p) ==
    IF CharAt(s, p) \notin LetterSet THEN 0
    ELSE LET q == SetMin({e \in p..Len(s) : CharAt(s, e + 1) \notin LetterSet})
             comma == IF CharAt(s, q + 3) = "," THEN q + 3 ELSE q + 4
         IN  IF /\ CharAt(s, q + 1) = " "
                /\ \A n \in (q + 2)..(comma - 1) : CharAt(s, n) \in DigitSet
                /\ CharAt(s, comma) = ","
                /\ CharAt(s, comma + 1) = " "
                /\ \A n \in (comma + 2)..(comma + 5) : CharAt(s, n) \in DigitSet
             THEN comma + 5
             ELSE 0

\* re.findall(r'([A-Za-z]+ \d{1,2}, \d{4})', s), from place p on
RECURSIVE FindDatesFrom(_, _)
FindDatesFrom(s, p) ==
    IF p > Len(s) THEN <<>>
    ELSE IF DateEnd(s, p) > 0
    THEN <<SubSeq(s, p, DateEnd(s, p))>> \o FindDatesFrom(s, DateEnd(s, p) + 1)
    ELSE FindDatesFrom(s, p + 1)

FindDates(s) == FindDatesFrom(s, 1)

\* (20\d{2}(\s+)?)+$ matches s from place p on
RECURSIVE YearsOnlyFrom(_, _)
YearsOnlyFrom(s, p) ==
    /\ YearAt(s, p)
    /\ \/ SkipSpace(s, p + 4) = Len(s) + 1
       \/ YearsOnlyFrom(s, SkipSpace(s, p + 4))

\* re.match(r'^(20\d{2}(\s+)?)+$', s)
IsYearsOnlyLine(s) == YearsOnlyFrom(s, 1)

\* re.findall(r'(As of|Ended)', s, re.IGNORECASE), from place p on
RECURSIVE PrefixMatchesFrom(_, _)
PrefixMatchesFrom(s, p) ==
    IF p + 4 > Len(s) THEN <<>>
    ELSE IF Lower(SubSeq(s, p, p + 4)) \in {<<"a", "s", " ", "o", "f">>, <<"e", "n",
        "d", "e", "d">>}
    THEN <<SubSeq(s, p, p + 4)>> \o PrefixMatchesFrom(s, p + 5)
    ELSE PrefixMatchesFrom(s, p + 1)

PrefixMatches(s) == PrefixMatchesFrom(s, 1)

\* next_lines for the anchor line at place k (1-based) of lines
NextLines(lines, k) ==
    (IF k + 1 <= Len(lines) THEN <<Strip(lines[k + 1])>> ELSE <<>>)
        \o (IF /\ k + 2 <= Len(lines)
               /\ \/ YearStarts(lines[k + 2]) # {}
                  \/ FindDates(lines[k + 2]) # <<>>
                  \/ IsYearsOnlyLine(lines[k + 2])
            THEN <<Strip(lines[k + 2])>>
            ELSE <<>>)

\* header_line = joined + ' ' + ' '.join(next_lines)
JoinedHeaderLine(joined, next_lines) == joined \o <<" ">> \o Join(<<" ">>, next_lines)

\* [f"{prefix.strip()} {date.strip()}" for prefix, date in zip(...)]
PairedHeaders(prefix_matches, date_matches) ==
    [n \in 1..Len(prefix_matches) |->
        Strip(prefix_matches[n]) \o <<" ">> \o Strip(date_matches[n])]

\* [f"{prefix} {year}".strip() for year in years]
YearHeaders(prefix, years) ==
    [n \in 1..Len(years) |-> Strip(prefix \o <<" ">> \o years[n])]

\* the headers the anchor line returns at once, <<>> when the loop breaks
AnchorHeaders(lines, k) ==
    LET joined == Strip(lines[k])
        next_lines == NextLines(lines, k)
        prefix_matches == PrefixMatches(joined)
        date_matches == FindDates(Join(<<" ">>, next_lines))
    IN  IF Len(prefix_matches) > 1 /\ Len(prefix_matches) = Len(date_matches)
        THEN PairedHeaders(prefix_matches, date_matches)
        ELSE IF Len(next_lines) = 2
        THEN YearHeaders(Strip(joined \o <<" ">> \o next_lines[1]),
                         FindYears(next_lines[2]))
        ELSE <<>>

\* the prefix kept with the text left of the first year unstripped
HeaderPrefix_unstripped(line, first_year) ==
    IF Find(line, first_year) > 0
    THEN SubSeq(line, 1, Find(line, first_year))
    ELSE line

\* the prefix: what stands before the first year of header_line
HeaderPrefix(line, first_year) ==
    IF Find(line, first_year) > 0
    THEN Strip(SubSeq(line, 1, Find(line, first_year)))
    ELSE Strip(line)

\* the headers made of header_line after the loop
HeadersFromLine(line) ==
    LET years == IF FindYears(line) # <<>> THEN FindYears(line) ELSE FindDates(line)
    IN  IF years # <<>>
        THEN YearHeaders(HeaderPrefix(line, years[1]), years)
        ELSE <<Strip(line)>>

YEAR_ENDED == <<"Y", "e", "a", "r", " ", "E", "n", "d", "e", "d", " ", "D", "e", "c",
    "e", "m", "b", "e", "r", " ", "3", "1">>

\* where (?:\d{4}\s*)+ stops when it starts at place p of s, p - 1 if it does
\* not match there
RECURSIVE YearGroupEnd(_, _)
YearGroupEnd(s, p) ==
    IF \E n \in p..(p + 3) : CharAt(s, n) \notin DigitSet THEN p - 1
    ELSE LET after == SkipSpace(s, p + 4)
         IN  IF YearGroupEnd(s, after) >= after
             THEN YearGroupEnd(s, after)
             ELSE after - 1

\* where group 1 of year_pattern starts for the literal found at place p
YearGroupStart(s, p) ==
    LET after == p + Len(YEAR_ENDED)
    IN  SkipSpace(s, IF CharAt(s, after) = "," THEN after + 1 ELSE after)

\* the places where year_pattern matches in the text
YearPatternStarts(s) ==
    {p \in Occurrences(s, YEAR_ENDED) :
        YearGroupEnd(s, YearGroupStart(s, p)) >= YearGroupStart(s, p)}

\* the years of re.search(year_pattern, text).group(1)
YearPatternYears(s) ==
    LET p == SetMin(YearPatternStarts(s))
    IN  SelectSeq(Split(SubSeq(s, YearGroupStart(s, p),
                               YearGroupEnd(s, YearGroupStart(s, p)))),
                  LAMBDA word : \A n \in 1..Len(word) : word[n] \in DigitSet)

\* "Year Ended December 31, {year}" for each year
DecemberHeaders(years) ==
    [n \in 1..Len(years) |-> YEAR_ENDED \o <<",", " ">> \o years[n]]

\* the year sequence is long enough at three years
EnoughYears_three(year_sequence) == Len(year_sequence) >= 3

\* len(year_sequence) >= 2
EnoughYears(year_sequence) == Len(year_sequence) >= 2

\* the return value of extract_header_info
NoHeaders == [none |-> TRUE, headers |-> <<>>]

Headers(list) == [none |-> FALSE, headers |-> list]

\* what the function returns when no line is an anchor line; a line that
\* year_pattern matches holds "Ended" and is an anchor line
FallbackHeaders(lines) ==
    LET text == Join(<<"\n">>, lines)
        year_sequence == FindYears(text)
    IN  IF YearPatternStarts(text) # {}
        THEN Headers(DecemberHeaders(YearPatternYears(text)))
        ELSE IF EnoughYears(year_sequence)
        THEN Headers(DecemberHeaders(SubSeq(year_sequence, 1,
                                            IF Len(year_sequence) < 3
                                            THEN Len(year_sequence) ELSE 3)))
        ELSE NoHeaders

\* the page cannot be opened or has no text layer: text.split raises and the
\* except clause returns None
HdrNoText ==
    /\ hdr_pc = "scan"
    /\ ~has_text
    /\ headers_found' = NoHeaders
    /\ hdr_pc' = "returned"
    /\ UNCHANGED <<page_lines, has_text, line_index, header_line>>
    /\ UNCHANGED not_hdr_vars

\* the loop passes a line that is not an anchor line
HdrScanLine ==
    /\ hdr_pc = "scan"
    /\ has_text
    /\ line_index < Len(page_lines)
    /\ ~IsAnchorLine(page_lines[line_index + 1])
    /\ line_index' = line_index + 1
    /\ UNCHANGED <<page_lines, has_text, hdr_pc, header_line, headers_found>>
    /\ UNCHANGED not_hdr_vars

\* the loop reaches the first anchor line: paired headers and the three-line
\* headers are returned at once, else the loop breaks
HdrAnchor ==
    /\ hdr_pc = "scan"
    /\ has_text
    /\ line_index < Len(page_lines)
    /\ IsAnchorLine(page_lines[line_index + 1])
    /\ header_line' = JoinedHeaderLine(Strip(page_lines[line_index + 1]),
                                       NextLines(page_lines, line_index + 1))
    /\ IF AnchorHeaders(page_lines, line_index + 1) # <<>>
       THEN /\ headers_found' = Headers(AnchorHeaders(page_lines, line_index + 1))
            /\ hdr_pc' = "returned"
       ELSE /\ hdr_pc' = "header_line"
            /\ UNCHANGED headers_found
    /\ UNCHANGED <<page_lines, has_text, line_index>>
    /\ UNCHANGED not_hdr_vars

\* after the break: the headers are made of header_line
HdrFromHeaderLine ==
    /\ hdr_pc = "header_line"
    /\ headers_found' = Headers(HeadersFromLine(header_line))
    /\ hdr_pc' = "returned"
    /\ UNCHANGED <<page_lines, has_text, line_index, header_line>>
    /\ UNCHANGED not_hdr_vars

\* the loop ended without an anchor line
HdrFallback ==
    /\ hdr_pc = "scan"
    /\ has_text
    /\ line_index = Len(page_lines)
    /\ headers_found' = FallbackHeaders(page_lines)
    /\ hdr_pc' = "returned"
    /\ UNCHANGED <<page_lines, has_text, line_index, header_line>>
    /\ UNCHANGED not_hdr_vars

-----------------------------------------------------------------------------
(* merge_long_rows and process_table_data as whole calls                   *)

\* the first pass from row idx on
RECURSIVE Pass1Loop(_, _, _)
Pass1Loop(table, idx, out) ==
    IF idx >= Len(table) THEN out
    ELSE LET step == Pass1Body(table, idx)
         IN  Pass1Loop(table, step[2], Append(out, step[1]))

\* the second pass from row idx on
RECURSIVE Pass2Loop(_, _, _)
Pass2Loop(rows, idx, out) ==
    IF idx >= Len(rows) THEN out
    ELSE Pass2Loop(rows, idx + 1, Pass2Body(rows, out, idx))

\* merge_long_rows(camelot_df)
merge_long_rows(table) ==
    IF Len(table) <= 1 THEN table
    ELSE LET final == Pass2Loop(Pass1Loop(table, 0, <<>>), 0, <<>>)
         IN  IF final # <<>> THEN final ELSE table

\* `for index, row in df.iterrows()` from row idx on
RECURSIVE RowLoop(_, _, _)
RowLoop(frame, idx, out) ==
    IF idx >= Len(frame.rows) THEN out
    ELSE RowLoop(frame, idx + 1,
                 out \o ProcessRow(frame.rows[idx + 1], Len(frame.columns)))

\* process_table_data(df)
process_table_data(frame) ==
    IF IsEmptyFrame(frame) THEN frame
    ELSE LET with_header == HeaderAsRow(frame)
             rows == RowLoop(with_header, 0, <<>>)
         IN  IF rows = <<>> THEN with_header ELSE PaddedFrame(rows)

-----------------------------------------------------------------------------
(* extract_table_rows_with_camelot, extract_table_hybrid and               *)
(* extract_table_from_page                                                  *)

\* a DataFrame or None
NoFrame == [none |-> TRUE, frame |-> EmptyFrame]

SomeFrame(frame) == [none |-> FALSE, frame |-> frame]

\* `table_df is not None and not table_df.empty`
HasTable(optional) == ~optional.none /\ ~IsEmptyFrame(optional.frame)

\* the column label k of a camelot table: an integer, not a string
IntLabel(k) == <<"int">> \o Str(k)

IsIntLabel(col) == col # <<>> /\ col[1] = "int"

\* table.df of the camelot table with the most rows
CamelotFrame(rows) ==
    [columns |-> [k \in 1..Len(rows[1]) |-> IntLabel(k - 1)], rows |-> rows]

\* the body of extract_table_rows_with_camelot for the table camelot found
CamelotRows(rows) == process_table_data(CamelotFrame(merge_long_rows(rows)))

NONE == <<"N", "o", "n", "e">>

\* `pd.notna(val) and str(val).strip() and str(val).strip() != 'None'`
IsMeaningful(val) == Strip(val) # <<>> /\ Strip(val) # NONE

\* columns_to_keep of extract_table_hybrid (1-based)
columns_to_keep(frame) ==
    {c \in 1..Len(frame.columns) :
        \E r \in 1..Len(frame.rows) :
            c <= Len(frame.rows[r]) /\ IsMeaningful(frame.rows[r][c])}

\* rows_df.iloc[:, columns_to_keep]
ILocColumns(frame, keep) ==
    LET order == Ascending(keep)
    IN  [columns |-> [k \in 1..Len(order) |-> frame.columns[order[k]]],
         rows |-> [r \in 1..Len(frame.rows) |->
                      [k \in 1..Len(order) |-> frame.rows[r][order[k]]]]]

CONSOLIDATED_STATEMENT == <<"c", "o", "n", "s", "o", "l", "i", "d", "a", "t", "e", "d",
    " ", "s", "t", "a", "t", "e", "m", "e", "n", "t">>

\* description.startswith('(') and description.endswith(')')
IsParenthetical(description) ==
    StartsWith(description, <<"(">>) /\ EndsWith(description, <<")">>)

\* the row filter of extract_table_hybrid: TRUE for a row it keeps
HybridKeeps(row) ==
    LET description == Strip(row[1])
    IN  /\ description # <<>>
        /\ description # NAN
        /\ ~IsParenthetical(description)
        /\ ~Contains(Lower(description), CONSOLIDATED_STATEMENT)

\* the camelot branch of extract_table_hybrid
HybridFilter(frame) ==
    IF columns_to_keep(frame) = {} THEN EmptyFrame
    ELSE LET narrowed == ILocColumns(frame, columns_to_keep(frame))
             kept == SelectSeq(narrowed.rows, HybridKeeps)
         IN  IF kept = <<>> THEN EmptyFrame ELSE [narrowed EXCEPT !.rows = kept]

\* `f"{col}_{i}" if df.columns.duplicated()[i] else col`
DedupColumns(header) ==
    [k \in 1..Len(header) |->
        IF \E j \in 1..(k - 1) : header[j] = header[k]
        THEN header[k] \o <<"_">> \o Str(k - 1)
        ELSE header[k]]

\* pd.DataFrame(table[1:], columns=table[0]), its all-empty rows dropped
PlumberFrame(rows) ==
    [columns |-> DedupColumns(rows[1]),
     rows |-> SelectSeq(Tail(rows),
                        LAMBDA row : \E c \in 1..Len(row) : row[c] # <<>>)]

\* set(text.lower().split())
LowerWords(text) == LET words == Split(Lower(text)) IN {words[k] : k \in 1..Len(words)}

\* header_words
HeaderWords(columns) == UNION {LowerWords(columns[c]) : c \in 1..Len(columns)}

\* `match_percentage >= 0.5`
IsHeaderMatch(description, columns) ==
    /\ LowerWords(description) # {}
    /\ HeaderWords(columns) # {}
    /\ 2 * Cardinality(LowerWords(description) \cap HeaderWords(columns))
           >= Cardinality(LowerWords(description))

\* what the header filter does with one row: "skip", "keep", or "raise" when
\* `col.lower()` meets a column label that is an integer
FilterVerdict(row, columns) ==
    LET description == Strip(row[1])
    IN  IF description = <<>> \/ description = NAN THEN "skip"
        ELSE IF \E c \in 1..Len(columns) : IsIntLabel(columns[c]) THEN "raise"
        ELSE IF IsHeaderMatch(description, columns) THEN "skip"
        ELSE IF Contains(Lower(description), CONSOLIDATED_STATEMENT) THEN "skip"
        ELSE "keep"

\* rows_to_keep with its rows in reverse
KeepRow_first(keep, idx) == <<idx>> \o keep

\* rows_to_keep.append(idx)
KeepRow(keep, idx) == Append(keep, idx)

\* table_df.iloc[rows_to_keep].reset_index(drop=True)
ILocRows(frame, keep) ==
    [frame EXCEPT !.rows = [k \in 1..Len(keep) |-> frame.rows[keep[k] + 1]]]

PARSED_RESULT == <<"P", "A", "R", "S", "E", "D", " ", "R", "E", "S", "U", "L", "T">>

\* add_parsed_result_row for a metadata dict without period, units, type or
\* company: the row 'PARSED RESULT' with empty cells, put first
add_parsed_result_row(frame) ==
    IF IsEmptyFrame(frame) THEN frame
    ELSE [frame EXCEPT
             !.rows = <<<<PARSED_RESULT>> \o [k \in 1..(Len(frame.columns) - 1) |-> <<>>]>>
                          \o frame.rows]

\* the header lists extract_header_info gives: None, and two years
HeaderChoices == {<<>>, <<<<"2", "0", "2", "3">>, <<"2", "0", "2", "2">>>>}

\* the metadata parser and extract_header_info are called
AsmStart ==
    /\ asm_pc = "start"
    /\ \E meta \in BOOLEAN, years \in HeaderChoices :
           /\ has_metadata' = meta
           /\ year_headers' = years
    /\ asm_pc' = "camelot"
    /\ UNCHANGED <<page_rows, best_df, plumber_tables, backends_tried, rows_df,
        hybrid_df,
                   page_table, filter_index, rows_to_keep, extracted>>
    /\ UNCHANGED not_asm_vars

\* extract_table_rows_with_camelot: camelot raises, finds no table, or finds
\* the rows of the page, which are merged and processed
AsmCamelot ==
    /\ asm_pc = "camelot"
    /\ \E outcome \in {"raises",
        "none"} \cup (IF page_rows # <<>> THEN {"table"} ELSE {}) :
           /\ best_df' = outcome
           /\ rows_df' = IF outcome = "table"
                         THEN SomeFrame(CamelotRows(page_rows))
                         ELSE NoFrame
    /\ backends_tried' = Append(backends_tried, "camelot")
    /\ asm_pc' = "hybrid"
    /\ UNCHANGED <<page_rows, has_metadata, year_headers, plumber_tables, hybrid_df,
                   page_table, filter_index, rows_to_keep, extracted>>
    /\ UNCHANGED not_asm_vars

\* extract_table_hybrid with rows from camelot: the empty columns and the
\* parenthetical rows are removed
AsmHybridFilter ==
    /\ asm_pc = "hybrid"
    /\ HasTable(rows_df)
    /\ hybrid_df' = SomeFrame(HybridFilter(rows_df.frame))
    /\ asm_pc' = "assemble"
    /\ UNCHANGED <<page_rows, has_metadata, year_headers, best_df, plumber_tables,
                   backends_tried, rows_df, page_table, filter_index, rows_to_keep,
                   extracted>>
    /\ UNCHANGED not_asm_vars

\* extract_table_hybrid without rows from camelot: pdfplumber raises, finds
\* no table of two or more rows, or finds the rows of the page
AsmFallback ==
    /\ asm_pc = "hybrid"
    /\ ~HasTable(rows_df)
    /\ \E outcome \in {"raises", "none"}
                          \cup (IF Len(page_rows) > 1 THEN {"tables"} ELSE {}) :
           /\ plumber_tables' = outcome
           /\ hybrid_df' = IF outcome = "tables"
                           THEN SomeFrame(process_table_data(PlumberFrame(page_rows)))
                           ELSE NoFrame
    /\ backends_tried' = Append(backends_tried, "pdfplumber")
    /\ asm_pc' = "assemble"
    /\ UNCHANGED <<page_rows, has_metadata, year_headers, best_df, rows_df, page_table,
                   filter_index, rows_to_keep, extracted>>
    /\ UNCHANGED not_asm_vars

\* no table, or an empty one: `return None`
AsmNoTable ==
    /\ asm_pc = "assemble"
    /\ ~HasTable(hybrid_df)
    /\ extracted' = NoFrame
    /\ asm_pc' = "returned"
    /\ UNCHANGED <<page_rows, has_metadata, year_headers, best_df, plumber_tables,
                   backends_tried, rows_df, hybrid_df, page_table, filter_index,
                   rows_to_keep>>
    /\ UNCHANGED not_asm_vars

\* the column names are updated and the header filter starts
AsmRename ==
    /\ asm_pc = "assemble"
    /\ HasTable(hybrid_df)
    /\ page_table' = WithHeaderNames(hybrid_df.frame, year_headers)
    /\ filter_index' = 0
    /\ rows_to_keep' = <<>>
    /\ asm_pc' = "filter"
    /\ UNCHANGED <<page_rows, has_metadata, year_headers, best_df, plumber_tables,
                   backends_tried, rows_df, hybrid_df, extracted>>
    /\ UNCHANGED not_asm_vars

\* one iteration of `for idx, row in table_df.iterrows()`
AsmFilterRow ==
    /\ asm_pc = "filter"
    /\ filter_index < Len(page_table.rows)
    /\ LET verdict == FilterVerdict(page_table.rows[filter_index + 1],
        page_table.columns)
       IN  /\ asm_pc' = IF verdict = "raise" THEN "raised" ELSE "filter"
           /\ filter_index' = IF verdict = "raise" THEN filter_index ELSE filter_index + 1
           /\ rows_to_keep' = IF verdict = "keep"
                              THEN KeepRow(rows_to_keep, filter_index)
                              ELSE rows_to_keep
    /\ UNCHANGED <<page_rows, has_metadata, year_headers, best_df, plumber_tables,
                   backends_tried, rows_df, hybrid_df, page_table, extracted>>
    /\ UNCHANGED not_asm_vars

\* the filter ends: an empty DataFrame when no row is kept, else the kept
\* rows, with the parsed result row when there is metadata
AsmReturn ==
    /\ asm_pc = "filter"
    /\ filter_index >= Len(page_table.rows)
    /\ extracted' =
           IF rows_to_keep = <<>> THEN SomeFrame(EmptyFrame)
           ELSE IF has_metadata
           THEN SomeFrame(add_parsed_result_row(ILocRows(page_table, rows_to_keep)))
           ELSE SomeFrame(ILocRows(page_table, rows_to_keep))
    /\ asm_pc' = "returned"
    /\ UNCHANGED <<page_rows, has_metadata, year_headers, best_df, plumber_tables,
                   backends_tried, rows_df, hybrid_df, page_table, filter_index,
                   rows_to_keep>>
    /\ UNCHANGED not_asm_vars

-----------------------------------------------------------------------------
(* The documents find_page_with_text is applied to                         *)

\* the longest document drawn
MaxPages == 2

BalanceSheetPage ==
    <<"B", "a", "l", "a", "n", "c", "e", " ", "S", "h", "e", "e", "t", " ",
      "C", "a", "s", "h", " ", "5">>

IndexPage ==
    <<"I", "n", "d", "e", "x", " ", "t", "o", " ", "B", "a", "l", "a", "n", "c", "e",
      " ", "S", "h", "e", "e", "t">>

ContentsOncePage ==
    <<"T", "a", "b", "l", "e", " ", "o", "f", " ", "C", "o", "n", "t", "e", "n", "t", "s",
      " ", "B", "a", "l", "a", "n", "c", "e", " ", "S", "h", "e", "e", "t">>

ContentsTwicePage ==
    ContentsOncePage \o
    <<" ", "T", "a", "b", "l", "e", " ", "o", "f", " ", "c", "o", "n", "t", "e", "n", "t", "s">>

CashFlowPage == <<"C", "a", "s", "h", " ", "F", "l", "o", "w", "s">>

BalanceSheetTail ==
    <<" ", "B", "a", "l", "a", "n", "c", "e", " ", "S", "h", "e", "e", "t">>

\* a page of 349 words that holds the balance sheet title
Page349Words == Words(347) \o BalanceSheetTail

\* a page of 350 words that holds the balance sheet title
Page350Words == Words(348) \o BalanceSheetTail

PageTexts ==
    {<<>>, BalanceSheetPage, IndexPage, ContentsOncePage, ContentsTwicePage,
     CashFlowPage, Page349Words, Page350Words}

SearchTexts ==
    {<<"b", "a", "l", "a", "n", "c", "e", " ", "s", "h", "e", "e", "t">>,
     <<"C", "a", "s", "h", " ", "F", "l", "o", "w", "s">>}

Documents == UNION {[1..n -> PageTexts] : n \in 0..MaxPages}

PageInit ==
    /\ pdf_readable \in BOOLEAN
    /\ pdf_pages \in (IF pdf_readable THEN Documents ELSE {<<>>})
    /\ search_text \in SearchTexts
    /\ min_page \in 1..(MaxPages + 1)
    /\ page_pc = "call"
    /\ page_result = NoPage

\* the call find_page_with_text(pdf_path, search_text, min_page)
FindPage ==
    /\ page_pc = "call"
    /\ page_result' = find_page_with_text(pdf_readable, pdf_pages, search_text, min_page)
    /\ page_pc' = "returned"
    /\ UNCHANGED <<pdf_readable, pdf_pages, search_text, min_page>>
    /\ UNCHANGED not_page_vars

\* find_page_with_text is not being called
PageIdle ==
    /\ pdf_readable = FALSE
    /\ pdf_pages = <<>>
    /\ search_text = <<>>
    /\ min_page = 1
    /\ page_pc = "idle"
    /\ page_result = NoPage

\* merge_long_rows is not being called
MergeIdle ==
    /\ camelot_df = <<>>
    /\ merge_pc = "idle"
    /\ i = 0
    /\ merged_rows = <<>>
    /\ final_rows = <<>>
    /\ result_df = <<>>
    /\ runs = 1
    /\ first_result = <<>>

\* process_table_data is not being called
PtdIdle ==
    /\ ptd_df = EmptyFrame
    /\ df = EmptyFrame
    /\ ptd_pc = "idle"
    /\ row_index = 0
    /\ processed_rows = <<>>
    /\ ptd_result = EmptyFrame
    /\ header_years = <<>>
    /\ table_df = EmptyFrame

\* no validator has been built
ValIdle ==
    /\ statements = <<>>
    /\ val_pc = "idle"
    /\ balance_checks = <<>>
    /\ income_checks = <<>>
    /\ cash_flow_checks = <<>>
    /\ cross_statement_checks = <<>>
    /\ balance_sheet_totals = <<>>
    /\ summary = <<>>

\* extract_header_info is not being called
HdrIdle ==
    /\ page_lines = <<>>
    /\ has_text = FALSE
    /\ hdr_pc = "idle"
    /\ line_index = 0
    /\ header_line = <<>>
    /\ headers_found = [none |-> TRUE, headers |-> <<>>]

\* extract_table_from_page is not being called
AsmIdle ==
    /\ page_rows = <<>>
    /\ asm_pc = "idle"
    /\ has_metadata = FALSE
    /\ year_headers = <<>>
    /\ best_df = ""
    /\ plumber_tables = ""
    /\ backends_tried = <<>>
    /\ rows_df = [none |-> TRUE, frame |-> [columns |-> <<>>, rows |-> <<>>]]
    /\ hybrid_df = [none |-> TRUE, frame |-> [columns |-> <<>>, rows |-> <<>>]]
    /\ page_table = [columns |-> <<>>, rows |-> <<>>]
    /\ filter_index = 0
    /\ rows_to_keep = <<>>
    /\ extracted = [none |-> TRUE, frame |-> [columns |-> <<>>, rows |-> <<>>]]

\* extract_all_statements_to_json is not being called
DocIdle ==
    /\ doc_pc = "idle"
    /\ attempts = <<>>
    /\ extracted_statements = <<>>
    /\ validate_calls = 0
    /\ validation_raised = FALSE
    /\ doc_result = [kind |-> "pending", extractedCount |-> 0, statements |-> <<>>,
                     validation |-> <<>>]

\* no client is connected
WsIdle ==
    /\ ws_pc = "idle"
    /\ connection_open = FALSE
    /\ ws_requests = <<>>
    /\ sent = <<>>
    /\ worker = "none"
    /\ task_id = 0
    /\ issued = {}

InitPage == PageInit /\ MergeIdle /\ PtdIdle /\ ValIdle /\ HdrIdle /\ AsmIdle /\ DocIdle /\ WsIdle

PageNext == FindPage

SpecPage == InitPage /\ [][PageNext]_vars

-----------------------------------------------------------------------------
(* The tables merge_long_rows is applied to                                *)

\* the longest table drawn
MaxRows == 3

\* a fragment of 15 words that is no section header: "Class A, x ... x and"
LongFragment ==
    <<"C", "l", "a", "s", "s", " ", "A", ",", " ">> \o Words(12) \o <<" ", "a", "n", "d">>

\* the same fragment one word shorter
ShortFragment ==
    <<"C", "l", "a", "s", "s", " ", "A", ",", " ">> \o Words(11) \o <<" ", "a", "n", "d">>

ASSETS == <<"A", "S", "S", "E", "T", "S">>

CurrentAssets == <<"C", "u", "r", "r", "e", "n", "t", " ", "a", "s", "s", "e", "t", "s", ":">>

Outstanding == <<"o", "u", "t", "s", "t", "a", "n", "d", "i", "n", "g">>

Cash == <<"C", "a", "s", "h">>

TotalAssets == <<"T", "o", "t", "a", "l", " ", "a", "s", "s", "e", "t", "s">>

NoValues == <<<<>>, <<>>>>

SomeValues == <<<<"5">>, <<"(", "4", ")">>>>

\* rows of a description and two value cells
MergeInputRows ==
    {<<LongFragment>> \o NoValues,
     <<ShortFragment>> \o NoValues,
     <<ASSETS>> \o NoValues,
     <<CurrentAssets>> \o NoValues,
     <<Outstanding>> \o NoValues,
     <<<<>>>> \o NoValues,
     <<Cash>> \o SomeValues,
     <<TotalAssets>> \o SomeValues}

MergeInputTables == UNION {[1..n -> MergeInputRows] : n \in 0..MaxRows}

MergeInit ==
    /\ camelot_df \in MergeInputTables
    /\ merge_pc = "call"
    /\ i = 0
    /\ merged_rows = <<>>
    /\ final_rows = <<>>
    /\ result_df = <<>>
    /\ runs = 1
    /\ first_result = <<>>

InitMerge == MergeInit /\ PageIdle /\ PtdIdle /\ ValIdle /\ HdrIdle /\ AsmIdle /\ DocIdle /\ WsIdle

MergeNext ==
    \/ MergeEarlyReturn
    \/ Pass1Start
    \/ Pass1Step
    \/ Pass2Start
    \/ Pass2Step
    \/ MergeReturn
    \/ MergeAgain

SpecMerge == InitMerge /\ [][MergeNext]_vars

-----------------------------------------------------------------------------
(* Tables of short rows for the second pass of merge_long_rows            *)

NetIncome == <<"N", "e", "t", " ", "i", "n", "c", "o", "m", "e">>

PerShare == <<"p", "e", "r", " ", "s", "h", "a", "r", "e">>

Footnote == <<"(", "1", ")", " ", "I", "n", "c", "l", "u", "d", "e", "s">>

BracketedLoss == <<"(", "L", "O", "S", "S", ")">>

OtherValues == <<<<"3">>, <<"2">>>>

\* rows of a description and two value cells: short descriptions that start
\* with an uppercase letter, a lowercase letter and a parenthesis, with and
\* without numbers, and lowercase descriptions of 14 and 15 words
MergeUpInputRows ==
    {<<NetIncome>> \o SomeValues,
     <<PerShare>> \o OtherValues,
     <<Outstanding>> \o NoValues,
     <<Footnote>> \o NoValues,
     <<BracketedLoss>> \o NoValues,
     <<NAN>> \o NoValues,
     <<Words(word_tolerance - 1)>> \o NoValues,
     <<Words(word_tolerance)>> \o NoValues}

MergeUpInputTables == UNION {[1..n -> MergeUpInputRows] : n \in 0..MaxRows}

MergeUpInit ==
    /\ camelot_df \in MergeUpInputTables
    /\ merge_pc = "call"
    /\ i = 0
    /\ merged_rows = <<>>
    /\ final_rows = <<>>
    /\ result_df = <<>>
    /\ runs = 1
    /\ first_result = <<>>

InitMergeUp == MergeUpInit /\ PageIdle /\ PtdIdle /\ ValIdle /\ HdrIdle /\ AsmIdle /\ DocIdle /\ WsIdle

SpecMergeUp == InitMergeUp /\ [][MergeNext]_vars

-----------------------------------------------------------------------------
(* The tables process_table_data is applied to                             *)

\* the longest table drawn
MaxTableRows == 2

\* the most header labels drawn
MaxHeaders == 2

SalesRow ==
    <<<<"S", "a", "l", "e", "s", " ", "a", "n", "d", " ", "m", "a", "r", "k", "e", "t", "i", "n", "g">>,
      <<"$", "2", "6", ",", "5", "6", "7">>, <<"$", "2", "7", ",", "9", "1", "7">>>>

NetLossRow ==
    <<<<"N", "e", "t", " ", "l", "o", "s", "s">>, <<"(", "3", ",", "5", "1", "4", ")">>,
      <<"EMDASH">>>>

GoodwillRow == <<<<"G", "o", "o", "d", "w", "i", "l", "l">>, <<"EMDASH">>, <<"-">>>>

AdjustmentRow == <<<<"A", "d", "j", "(", "5", ")">>, <<"(", "5", ")">>, <<>>>>

NotesRow ==
    <<<<"N", "o", "t", "e", "s", " ", "d", "u", "e", " ", "2", "0", "2", "5">>,
      <<"5", "0", "0">>, <<>>>>

ParValueRow ==
    <<<<"P", "a", "r", " ", "$", "1", " ", "v", "a", "l", "u", "e">>, <<"7">>, <<"8">>>>

OneCellRow == <<<<"C", "o", "s", "t", " ", "1", " ", "2", " ", "3">>, <<>>, <<>>>>

YearsRow == <<<<"2", "0", "2", "3">>, <<"2", "0", "2", "2">>, <<>>>>

LossRow == <<<<"L", "o", "s", "s">>, <<"(", "a", ")">>, <<"5">>>>

HeadingRow == <<ASSETS, <<>>, <<>>>>

BlankRow == <<<<>>, <<" ">>, <<"N", "o", "n", "e">>>>

DollarRow == <<<<"$">>, <<>>, <<>>>>

CurrencyRow ==
    <<<<"I", "n", " ", "$", " ", "t", "h", "o", "u", "s", "a", "n", "d", "s">>, <<>>,
      <<"N", "o", "n", "e", "_", "2">>>>

PtdInputRows ==
    {SalesRow, NetLossRow, GoodwillRow, AdjustmentRow, NotesRow, ParValueRow,
     OneCellRow, YearsRow, LossRow, HeadingRow, BlankRow, DollarRow, CurrencyRow}

\* the column names of a table read without a header, and of one whose first
\* data row was taken for the header
PtdInputColumns ==
    {<<<<"0">>, <<"1">>, <<"2">>>>,
     <<REVENUES, <<"1", "0", "0">>, <<"9", "0">>>>}

PtdInputTables ==
    {[columns |-> c, rows |-> r] :
        c \in PtdInputColumns,
        r \in UNION {[1..n -> PtdInputRows] : n \in 0..MaxTableRows}}

YearLabels == <<<<"2", "0", "2", "3">>, <<"2", "0", "2", "2">>, <<"2", "0", "2", "1">>>>

\* the header lists drawn: None, and the first n of the year labels
HeaderLists == {[k \in 1..n |-> YearLabels[((k - 1) % 3) + 1]] : n \in 0..MaxHeaders}

PtdInit ==
    /\ ptd_df \in PtdInputTables
    /\ header_years \in HeaderLists
    /\ df = EmptyFrame
    /\ ptd_pc = "call"
    /\ row_index = 0
    /\ processed_rows = <<>>
    /\ ptd_result = EmptyFrame
    /\ table_df = EmptyFrame

InitPtd == PtdInit /\ PageIdle /\ MergeIdle /\ ValIdle /\ HdrIdle /\ AsmIdle /\ DocIdle /\ WsIdle

PtdNext ==
    \/ PtdEmpty
    \/ PtdStart
    \/ PtdRow
    \/ PtdReturn
    \/ ApplyHeaderNames

SpecPtd == InitPtd /\ [][PtdNext]_vars

-----------------------------------------------------------------------------
(* The statements the validator is given                                   *)

\* the most rows the statements of one document hold together
MaxStatementRows == 3

StatementHeaders == <<"Description", "FY2024", "FY2023">>

BalanceRow(description, this_year, last_year) ==
    [Description |-> description, FY2024 |-> this_year, FY2023 |-> last_year]

\* the rows a balance sheet is drawn from, in the order of the statement
BalanceSheetRows ==
    << BalanceRow(<<"C", "a", "s", "h", " ", "a", "n", "d", " ", "c", "a", "s", "h",
        " ", "e", "q", "u", "i", "v", "a", "l", "e", "n", "t", "s">>, <<"1", ",", "0",
        "0", "0">>, <<"$", "2", ",", "0", "0", "0">>),
       BalanceRow(<<"A", "c", "c", "u", "m", "u", "l", "a", "t", "e", "d", " ", "d",
           "e", "p", "r", "e", "c", "i", "a", "t", "i", "o", "n">>, <<"(", "3", "0",
           "0", ")">>, <<"(", "2", "0", "0", ")">>),
       BalanceRow(<<"T", "o", "t", "a", "l", " ", "c", "u", "r", "r", "e", "n", "t",
           " ", "a", "s", "s", "e", "t", "s">>, <<"2", ",", "5", "0", "0">>, <<>>),
       BalanceRow(<<"T", "o", "t", "a", "l", " ", "a", "s", "s", "e", "t", "s">>,
           <<"3", ",", "0", "0", "0">>, <<"2", ",", "0", "0", "0">>),
       BalanceRow(<<"L", "i", "a", "b", "i", "l", "i", "t", "i", "e", "s", " ", "a",
           "n", "d", " ", "s", "t", "o", "c", "k", "h", "o", "l", "d", "e", "r", "s",
           "'", " ", "e", "q", "u", "i", "t", "y">>, <<>>, <<>>),
       BalanceRow(<<"A", "c", "c", "o", "u", "n", "t", "s", " ", "p", "a", "y", "a",
           "b", "l", "e">>, <<"4", ",", "0", "0", "0">>, <<"1", ",", "0", "0", "0">>),
       BalanceRow(<<"T", "o", "t", "a", "l", " ", "l", "i", "a", "b", "i", "l", "i",
           "t", "i", "e", "s", " ", "a", "n", "d", " ", "s", "t", "o", "c", "k", "h",
           "o", "l", "d", "e", "r", "s", "'", " ", "e", "q", "u", "i", "t", "y">>,
           <<"5", ",", "0", "0", "0">>, <<>>),
       BalanceRow(<<"T", "o", "t", "a", "l", " ", "l", "i", "a", "b", "i", "l", "i",
           "t", "i", "e", "s", " ", "a", "n", "d", " ", "e", "q", "u", "i", "t", "y">>,
           <<"3", ",", "9", "9", "9">>, <<"EMDASH">>),
       [Description |-> <<"S", "h", "a", "r", "e", "s", " ", "o", "u", "t", "s", "t",
           "a", "n", "d", "i", "n", "g">>, FY2024 |-> <<"7">>] >>

IncomeStatementRows ==
    << BalanceRow(<<"R", "e", "v", "e", "n", "u", "e", "s">>, <<"1", ",", "0", "0",
        "0">>, <<"1", ",", "0", "0", "0">>),
       BalanceRow(<<"R", "e", "s", "e", "a", "r", "c", "h", " ", "a", "n", "d", " ",
           "d", "e", "v", "e", "l", "o", "p", "m", "e", "n", "t">>, <<"5", "0", "0">>,
           <<"3", "0", "0">>),
       BalanceRow(<<"I", "n", "c", "o", "m", "e", " ", "f", "r", "o", "m", " ", "o",
           "p", "e", "r", "a", "t", "i", "o", "n", "s">>, <<"1", "0", "0">>, <<"(",
           "2", "0", ")">>),
       BalanceRow(<<"I", "n", "t", "e", "r", "e", "s", "t", " ", "e", "x", "p", "e",
           "n", "s", "e">>, <<"1", "0">>, <<"1", "0">>),
       BalanceRow(<<"P", "r", "o", "v", "i", "s", "i", "o", "n", " ", "f", "o", "r",
           " ", "i", "n", "c", "o", "m", "e", " ", "t", "a", "x", "e", "s">>, <<"(",
           "5", ")">>, <<>>),
       BalanceRow(<<"N", "e", "t", " ", "i", "n", "c", "o", "m", "e">>, <<"5">>, NAN) >>

CashFlowRows ==
    << BalanceRow(<<"N", "e", "t", " ", "c", "a", "s", "h", " ", "p", "r", "o", "v",
        "i", "d", "e", "d", " ", "b", "y", " ", "o", "p", "e", "r", "a", "t", "i", "n",
        "g", " ", "a", "c", "t", "i", "v", "i", "t", "i", "e", "s">>, <<"3", "0",
        "0">>, <<"2", "0", "0">>),
       BalanceRow(<<"P", "u", "r", "c", "h", "a", "s", "e", "s", " ", "o", "f", " ",
           "p", "r", "o", "p", "e", "r", "t", "y", " ", "a", "n", "d", " ", "e", "q",
           "u", "i", "p", "m", "e", "n", "t">>, <<"(", "1", "0", "0", ")">>, <<"(",
           "5", "0", ")">>),
       BalanceRow(<<"D", "i", "v", "i", "d", "e", "n", "d", " ", "p", "a", "y", "m",
           "e", "n", "t", "s">>, <<"(", "4", "0", "0", ")">>, <<>>),
       BalanceRow(<<"R", "e", "p", "u", "r", "c", "h", "a", "s", "e", "s", " ", "o",
           "f", " ", "s", "t", "o", "c", "k">>, <<"(", "1", "0", ")">>, <<>>),
       BalanceRow(<<"R", "e", "p", "a", "y", "m", "e", "n", "t", "s", " ", "o", "f",
           " ", "d", "e", "b", "t">>, <<"(", "6", "0", "0", ")">>, <<>>) >>

\* the rows of a template picked by a set of indices, in the template's order
Picked(template, picks) ==
    [k \in 1..Cardinality(picks) |->
        template[CHOOSE x \in picks : Cardinality({y \in picks : y < x}) = k - 1]]

\* every choice of at most n rows among the three templates, as
\* <<kind, index>> pairs
RECURSIVE RowChoices(_)
RowChoices(n) ==
    IF n = 0 THEN {{}}
    ELSE LET fewer == RowChoices(n - 1)
         IN  fewer
             \cup {choice \cup {pick} :
                      choice \in fewer,
                      pick \in ({"income"} \X DOMAIN IncomeStatementRows)
                               \cup ({"balance"} \X DOMAIN BalanceSheetRows)
                               \cup ({"cash"} \X DOMAIN CashFlowRows)}

Statement(name, template, choice, kind) ==
    [name |-> name, headers |-> StatementHeaders,
     tableData |-> Picked(template, {pick[2] : pick \in {p \in choice : p[1] = kind}})]

\* the statements of one document, in the order they are extracted; each of
\* the three is present with the rows picked for it, or left out
StatementLists ==
    {(IF with_income
      THEN <<Statement(<<"C", "O", "N", "S", "O", "L", "I", "D", "A", "T", "E", "D",
          " ", "S", "T", "A", "T", "E", "M", "E", "N", "T", "S", " ", "O", "F", " ",
          "I", "N", "C", "O", "M", "E">>, IncomeStatementRows,
                       choice, "income")>>
      ELSE <<>>)
     \o (IF with_balance
         THEN <<Statement(<<"C", "O", "N", "S", "O", "L", "I", "D", "A", "T", "E", "D",
             " ", "B", "A", "L", "A", "N", "C", "E", " ", "S", "H", "E", "E", "T",
             "S">>, BalanceSheetRows,
                          choice, "balance")>>
         ELSE <<>>)
     \o (IF with_cash
         THEN <<Statement(<<"C", "O", "N", "S", "O", "L", "I", "D", "A", "T", "E", "D",
             " ", "S", "T", "A", "T", "E", "M", "E", "N", "T", "S", " ", "O", "F", " ",
             "C", "A", "S", "H", " ", "F", "L", "O", "W", "S">>, CashFlowRows,
                          choice, "cash")>>
         ELSE <<>>) :
        choice \in RowChoices(MaxStatementRows),
        with_income \in BOOLEAN, with_balance \in BOOLEAN, with_cash \in BOOLEAN}

ValInit ==
    /\ statements \in StatementLists
    /\ val_pc = "balance"
    /\ balance_checks = <<>>
    /\ income_checks = <<>>
    /\ cash_flow_checks = <<>>
    /\ cross_statement_checks = <<>>
    /\ balance_sheet_totals = <<>>
    /\ summary = <<>>

InitVal == ValInit /\ PageIdle /\ MergeIdle /\ PtdIdle /\ HdrIdle /\ AsmIdle /\ DocIdle /\ WsIdle

ValNext ==
    \/ ValidateBalanceSheet
    \/ ValidateIncomeStatement
    \/ ValidateCashFlow
    \/ ValidateCrossStatement
    \/ BalanceSheetTotals

SpecVal == InitVal /\ [][ValNext]_vars

-----------------------------------------------------------------------------
(* The pages extract_header_info is applied to                             *)

\* the most lines a page has
MaxLines == 3

\* the lines a page is made of
HeaderLines ==
    { <<"Y", "e", "a", "r", " ", "E", "n", "d", "e", "d", " ", "D", "e", "c", "e", "m",
        "b", "e", "r", " ", "3", "1", ",", " ", "2", "0", "2", "3", " ", "2", "0", "2",
        "2", " ", "2", "0", "2", "1">>,
      <<"2", "0", "2", "3", " ", "2", "0", "2", "2">>,
      <<"(", "i", "n", " ", "m", "i", "l", "l", "i", "o", "n", "s", ")">>,
      <<"T", "h", "r", "e", "e", " ", "M", "o", "n", "t", "h", "s", " ", "E", "n", "d",
          "e", "d", " ", "S", "i", "x", " ", "M", "o", "n", "t", "h", "s", " ", "E",
          "n", "d", "e", "d">>,
      <<"J", "u", "n", "e", " ", "3", "0", ",", " ", "2", "0", "2", "4", " ", "J", "u",
          "n", "e", " ", "3", "0", ",", " ", "2", "0", "2", "3">>,
      <<"F", "i", "s", "c", "a", "l", " ", "2", "0", "2", "3">>,
      <<"D", "e", "c", "e", "m", "b", "e", "r", " ", "3", "1", ",", " ", "1", "9", "9",
          "9">>,
      <<"Y", "e", "a", "r", "s", " ", "e", "n", "d", "e", "d", " ", "D", "e", "c", "e",
          "m", "b", "e", "r", " ", "3", "1", ",">>,
      <<"Y", "e", "a", "r", " ", "E", "n", "d", "e", "d", " ", "D", "e", "c", "e", "m",
          "b", "e", "r", " ", "3", "1", ",", " ", "1", "9", "9", "9", " ", "1", "9",
          "9", "8">>,
      <<>> }

\* the texts split at '\n': a text has at least one line
HeaderPages == UNION {[1..n -> HeaderLines] : n \in 1..MaxLines}

HdrInit ==
    /\ has_text \in BOOLEAN
    /\ page_lines \in (IF has_text THEN HeaderPages ELSE {<<>>})
    /\ hdr_pc = "scan"
    /\ line_index = 0
    /\ header_line = <<>>
    /\ headers_found = NoHeaders

InitHdr == HdrInit /\ PageIdle /\ MergeIdle /\ PtdIdle /\ ValIdle /\ AsmIdle /\ DocIdle /\ WsIdle

HdrNext ==
    \/ HdrNoText
    \/ HdrScanLine
    \/ HdrAnchor
    \/ HdrFromHeaderLine
    \/ HdrFallback

SpecHdr == InitHdr /\ [][HdrNext]_vars

-----------------------------------------------------------------------------
(* The pages extract_table_from_page is applied to                         *)

\* the longest page drawn
MaxPageRows == 2

NetSalesRow == <<<<"N", "e", "t", " ", "s", "a", "l", "e", "s">>, <<"5">>, <<"(", "4",
    ")">>>>

PerShareRow == <<PerShare, <<>>, <<>>>>

InMillionsRow == <<<<"(", "i", "n", " ", "m", "i", "l", "l", "i", "o", "n", "s", ")">>,
    <<>>, <<>>>>

\* half of its distinct words are header words
CashDescriptionRow == <<<<"C", "a", "s", "h", " ", "c", "a", "s", "h", " ", "D", "e",
    "s", "c", "r", "i", "p", "t", "i", "o", "n">>, <<"3">>, <<>>>>

\* a third of its words are header words
DescriptionOfCashRow == <<<<"D", "e", "s", "c", "r", "i", "p", "t", "i", "o", "n", " ",
    "o", "f", " ", "C", "a", "s", "h">>, <<"2">>, <<>>>>

PageTitleRow == <<<<"C", "o", "n", "s", "o", "l", "i", "d", "a", "t", "e", "d", " ",
    "S", "t", "a", "t", "e", "m", "e", "n", "t", "s", " ", "o", "f", " ", "I", "n",
    "c", "o", "m", "e">>, <<>>, <<>>>>

DollarOnlyRow == <<<<"$">>, <<>>, <<>>>>

EmptyCellsRow == <<<<>>, <<>>, <<>>>>

NanRow == <<NAN, <<>>, <<>>>>

RevenuesRow == <<REVENUES, <<"9">>, <<"8">>>>

PageInputRows ==
    {NetSalesRow, PerShareRow, InMillionsRow, CashDescriptionRow, DescriptionOfCashRow,
     PageTitleRow, DollarOnlyRow, EmptyCellsRow, NanRow, RevenuesRow}

PageInputTables == UNION {[1..n -> PageInputRows] : n \in 0..MaxPageRows}

AsmInit ==
    /\ page_rows \in PageInputTables
    /\ asm_pc = "start"
    /\ has_metadata = FALSE
    /\ year_headers = <<>>
    /\ best_df = ""
    /\ plumber_tables = ""
    /\ backends_tried = <<>>
    /\ rows_df = NoFrame
    /\ hybrid_df = NoFrame
    /\ page_table = EmptyFrame
    /\ filter_index = 0
    /\ rows_to_keep = <<>>
    /\ extracted = NoFrame

InitAsm == AsmInit /\ PageIdle /\ MergeIdle /\ PtdIdle /\ ValIdle /\ HdrIdle /\ DocIdle /\ WsIdle

AsmNext ==
    \/ AsmStart
    \/ AsmCamelot
    \/ AsmHybridFilter
    \/ AsmFallback
    \/ AsmNoTable
    \/ AsmRename
    \/ AsmFilterRow
    \/ AsmReturn

SpecAsm == InitAsm /\ [][AsmNext]_vars

-----------------------------------------------------------------------------
(* extract_all_statements_to_json                                          *)

\* extract_table_hybrid for the rows extract_table_rows_with_camelot gave
HybridChoice(from_camelot, rows, plumber) ==
    IF HasTable(from_camelot) THEN SomeFrame(HybridFilter(from_camelot.frame))
    ELSE IF plumber = "tables" /\ Len(rows) > 1
    THEN SomeFrame(process_table_data(PlumberFrame(rows)))
    ELSE NoFrame

\* extract_table_hybrid for what the two backends did with the page
extract_table_hybrid(rows, camelot, plumber) ==
    HybridChoice(IF camelot = "table" /\ rows # <<>>
                 THEN SomeFrame(CamelotRows(rows))
                 ELSE NoFrame,
                 rows, plumber)

\* the header filter from row idx on: the rows kept, or raised
RECURSIVE FilterLoop(_, _, _)
FilterLoop(frame, idx, keep) ==
    IF idx >= Len(frame.rows) THEN [raised |-> FALSE, keep |-> keep]
    ELSE IF FilterVerdict(frame.rows[idx + 1], frame.columns) = "raise"
    THEN [raised |-> TRUE, keep |-> keep]
    ELSE FilterLoop(frame, idx + 1,
                    IF FilterVerdict(frame.rows[idx + 1], frame.columns) = "keep"
                    THEN KeepRow(keep, idx)
                    ELSE keep)

\* the end of extract_table_from_page for the outcome of the header filter
FilteredTable(renamed, filtered, with_metadata) ==
    IF filtered.raised THEN [raised |-> TRUE, table |-> NoFrame]
    ELSE IF filtered.keep = <<>>
    THEN [raised |-> FALSE, table |-> SomeFrame(EmptyFrame)]
    ELSE IF with_metadata
    THEN [raised |-> FALSE,
          table |-> SomeFrame(add_parsed_result_row(ILocRows(renamed, filtered.keep)))]
    ELSE [raised |-> FALSE, table |-> SomeFrame(ILocRows(renamed, filtered.keep))]

\* extract_table_from_page for the table extract_table_hybrid gave
AssembledTable(found, years, with_metadata) ==
    IF ~HasTable(found) THEN [raised |-> FALSE, table |-> NoFrame]
    ELSE FilteredTable(WithHeaderNames(found.frame, years),
                       FilterLoop(WithHeaderNames(found.frame, years), 0, <<>>),
                       with_metadata)

\* extract_table_from_page as one call: what it returns, or raised
extract_table_from_page(page) ==
    AssembledTable(extract_table_hybrid(page.rows, page.camelot, page.plumber),
                   page.years, page.metadata)

\* s.replace(old, new)
RECURSIVE Replace(_, _, _)
Replace(s, old, new) ==
    IF Len(s) < Len(old) THEN s
    ELSE IF StartsWith(s, old)
    THEN new \o Replace(SubSeq(s, Len(old) + 1, Len(s)), old, new)
    ELSE <<s[1]>> \o Replace(Tail(s), old, new)

INCOME_STATEMENT == <<"C", "O", "N", "S", "O", "L", "I", "D", "A", "T", "E", "D", " ",
    "S", "T", "A", "T", "E", "M", "E", "N", "T", "S", " ", "O", "F", " ", "I", "N",
    "C", "O", "M", "E">>

BALANCE_SHEETS == <<"C", "O", "N", "S", "O", "L", "I", "D", "A", "T", "E", "D", " ",
    "B", "A", "L", "A", "N", "C", "E", " ", "S", "H", "E", "E", "T", "S">>

CASH_FLOWS == <<"C", "O", "N", "S", "O", "L", "I", "D", "A", "T", "E", "D", " ", "S",
    "T", "A", "T", "E", "M", "E", "N", "T", "S", " ", "O", "F", " ", "C", "A", "S",
    "H", " ", "F", "L", "O", "W", "S">>

\* statements
StatementTitles == <<INCOME_STATEMENT, BALANCE_SHEETS, CASH_FLOWS>>

CONSOLIDATED_STATEMENTS_OF == <<"C", "O", "N", "S", "O", "L", "I", "D", "A", "T", "E",
    "D", " ", "S", "T", "A", "T", "E", "M", "E", "N", "T", "S", " ", "O", "F", " ">>

CONSOLIDATED_ == <<"C", "O", "N", "S", "O", "L", "I", "D", "A", "T", "E", "D", " ">>

\* statement_name
statement_name(statement) ==
    Replace(Replace(Replace(Replace(statement, CONSOLIDATED_STATEMENTS_OF, <<>>),
                            CONSOLIDATED_, <<>>),
                    <<"'">>, <<>>),
            <<" ">>, <<"_">>)

\* row_dict: one entry per column name, the cells of columns of the same name
\* joined with ", "
RowDict(columns, row) ==
    [col \in {columns[c] : c \in 1..Len(columns)} |->
        LET at == Ascending({c \in 1..Len(columns) : columns[c] = col})
        IN  Join(<<",", " ">>, [k \in 1..Len(at) |-> row[at[k]]])]

\* statement_data
StatementData(statement, target_page, table, with_metadata) ==
    [name |-> statement_name(statement),
     pageNumber |-> target_page,
     headers |-> table.columns,
     tableData |-> [r \in 1..Len(table.rows) |->
                       RowDict(table.columns, table.rows[r])],
     metadata |-> with_metadata]

\* validation results with a summary of failed checks
FallbackValidation_bare ==
    [checklist_results |-> <<>>,
     summary |-> [total_checks |-> 33, passed_checks |-> 0, failed_checks |-> 33,
                  pass_rate |-> 0],
     balance_sheet_totals |-> <<>>]

\* the validation results when validate_financial_statements raised
FallbackValidation ==
    [checklist_results |-> <<>>,
     summary |-> [total_checks |-> 0, passed_checks |-> 0, failed_checks |-> 0,
                  pass_rate |-> 0],
     balance_sheet_totals |-> <<>>]

\* what validate_financial_statements returns: the 33 checks, all failed or
\* all passed or some passed
ValidatorResults ==
    {[checklist_results |-> [k \in 1..33 |-> k <= passed],
      summary |-> Summary([k \in 1..33 |-> k <= passed]),
      balance_sheet_totals |-> <<>>] : passed \in {0, 16, 33}}

\* the pages of a document that carry a statement title, with what the
\* backends, extract_header_info and the metadata parser make of each
TwoYears == <<<<"2", "0", "2", "3">>, <<"2", "0", "2", "2">>>>

StatementPage(rows, camelot, plumber, years, with_metadata) ==
    [rows |-> rows, camelot |-> camelot, plumber |-> plumber, years |-> years,
     metadata |-> with_metadata]

StatementPages ==
    {StatementPage(<<NetSalesRow>>, "table", "", TwoYears, TRUE),
     StatementPage(<<PageTitleRow, RevenuesRow>>, "none", "tables", <<>>, FALSE),
     StatementPage(<<DollarOnlyRow>>, "table", "", <<>>, TRUE),
     StatementPage(<<InMillionsRow>>, "table", "", TwoYears, TRUE),
     StatementPage(<<CashDescriptionRow>>, "table", "", <<>>, TRUE),
     StatementPage(<<>>, "none", "none", <<>>, FALSE)}

\* what becomes of a statement
Outcome(target_page, page_extracted, call) ==
    IF target_page = NoPage THEN "not found"
    ELSE IF ~page_extracted THEN "not extracted"
    ELSE IF call.raised THEN "raised"
    ELSE IF HasTable(call.table) THEN "assembled"
    ELSE "no table"

\* the body of `for statement in statements` for one statement
AttemptStatement(statement, target_page, with_metadata, call, outcome) ==
    /\ attempts' = Append(attempts, [statement |-> statement, outcome |-> outcome])
    /\ extracted_statements' =
           IF outcome = "assembled"
           THEN Append(extracted_statements,
                       StatementData(statement, target_page, call.table.frame,
                                     with_metadata))
           ELSE extracted_statements
    /\ doc_pc' = IF outcome = "raised" THEN "raised"
                 ELSE IF Len(attempts) + 1 = Len(StatementTitles) THEN "finish"
                 ELSE "statements"

\* one iteration of `for statement in statements`
DocStatement ==
    /\ doc_pc = "statements"
    /\ Len(attempts) < Len(StatementTitles)
    /\ \E target_page \in {NoPage} \cup 1..MaxPages, page_extracted \in BOOLEAN,
          page \in StatementPages :
           \E call \in {extract_table_from_page(page)} :
               AttemptStatement(StatementTitles[Len(attempts) + 1], target_page,
                                page.metadata, call,
                                Outcome(target_page, page_extracted, call))
    /\ UNCHANGED <<validate_calls, validation_raised, doc_result>>
    /\ UNCHANGED not_doc_vars

\* `if not extracted_statements: return None`
DocNoStatements ==
    /\ doc_pc = "finish"
    /\ extracted_statements = <<>>
    /\ doc_result' = [doc_result EXCEPT !.kind = "None"]
    /\ doc_pc' = "returned"
    /\ UNCHANGED <<attempts, extracted_statements, validate_calls, validation_raised>>
    /\ UNCHANGED not_doc_vars

\* the statements are validated and the result is returned
DocValidate ==
    /\ doc_pc = "finish"
    /\ extracted_statements # <<>>
    /\ validate_calls' = validate_calls + 1
    /\ \E raised \in BOOLEAN, returned \in ValidatorResults :
           /\ validation_raised' = raised
           /\ doc_result' = [kind |-> "json",
                             extractedCount |-> Len(extracted_statements),
                             statements |-> extracted_statements,
                             validation |-> IF raised THEN FallbackValidation
                                            ELSE returned]
    /\ doc_pc' = "returned"
    /\ UNCHANGED <<attempts, extracted_statements>>
    /\ UNCHANGED not_doc_vars

DocInit ==
    /\ doc_pc = "statements"
    /\ attempts = <<>>
    /\ extracted_statements = <<>>
    /\ validate_calls = 0
    /\ validation_raised = FALSE
    /\ doc_result = [kind |-> "pending", extractedCount |-> 0, statements |-> <<>>,
                     validation |-> <<>>]

InitDoc ==
    DocInit /\ PageIdle /\ MergeIdle /\ PtdIdle /\ ValIdle /\ HdrIdle /\ AsmIdle /\ WsIdle /\ WsIdle

DocNext ==
    \/ DocStatement
    \/ DocNoStatements
    \/ DocValidate

SpecDoc == InitDoc /\ [][DocNext]_vars

-----------------------------------------------------------------------------
(* pdf_websocket_server: handle_websocket, handle_process_pdf_request and  *)
(* process_pdf_with_progress                                               *)

\* the most process_pdf requests one connection carries
MaxRequests == 2

\* the task ids uuid4 draws from
TaskIds == 1..MaxRequests

\* data.get("pdf_path"): not given (or empty), the path of no file, the path
\* of a file
PdfPaths == {"missing", "absent", "exists"}

\* a message sent in answer to the request-th request
Message(type, id, request) == [type |-> type, task_id |-> id, request |-> request]

\* task_completed followed by task_error
ResultMessages_both(outcome, id, request) ==
    <<Message("task_completed", id, request), Message("task_error", id, request)>>

\* what is sent when future.result returns, raises, or times out
ResultMessages(outcome, id, request) ==
    IF outcome = "returned"
    THEN <<Message("task_completed", id, request)>>
    ELSE <<Message("task_error", id, request)>>

\* `async for message in websocket`: a process_pdf request arrives
WsReceive ==
    /\ ws_pc = "receive"
    /\ connection_open
    /\ Len(ws_requests) < MaxRequests
    /\ \E pdf_path \in PdfPaths : ws_requests' = Append(ws_requests, pdf_path)
    /\ ws_pc' = "handle"
    /\ UNCHANGED <<connection_open, sent, worker, task_id, issued>>
    /\ UNCHANGED not_ws_vars

\* the client closes the connection; a handler waiting for a message ends
WsClose ==
    /\ ws_pc \in {"receive", "handle", "result", "shutdown"}
    /\ connection_open
    /\ connection_open' = FALSE
    /\ ws_pc' = IF ws_pc = "receive" THEN "closed" ELSE ws_pc
    /\ UNCHANGED <<ws_requests, sent, worker, task_id, issued>>
    /\ UNCHANGED not_ws_vars

\* handle_process_pdf_request up to the call of future.result: the path is
\* checked, and either an error is sent or task_started is sent and the
\* worker is submitted; on a closed connection every send raises and the
\* handler ends
WsRespond ==
    /\ ws_pc = "handle"
    /\ IF ~connection_open
       THEN /\ ws_pc' = "closed"
            /\ UNCHANGED <<sent, worker, task_id, issued>>
       ELSE IF ws_requests[Len(ws_requests)] # "exists"
       THEN /\ sent' = Append(sent, Message("error", 0, Len(ws_requests)))
            /\ ws_pc' = "receive"
            /\ UNCHANGED <<worker, task_id, issued>>
       ELSE \E id \in TaskIds \ issued :
                /\ task_id' = id
                /\ issued' = issued \cup {id}
                /\ sent' = Append(sent, Message("task_started", id, Len(ws_requests)))
                /\ worker' = "running"
                /\ ws_pc' = "result"
    /\ UNCHANGED <<connection_open, ws_requests>>
    /\ UNCHANGED not_ws_vars

\* process_pdf_with_progress ends: with the result data, or with an exception
\* when the file has gone, when extract_all_statements_to_json gave None, or
\* when it raised
WorkerFinish ==
    /\ worker = "running"
    /\ \E outcome \in {"result", "file not found", "None", "raises"} :
           worker' = IF outcome = "result" THEN "returned" ELSE "raised"
    /\ UNCHANGED <<ws_pc, connection_open, ws_requests, sent, task_id, issued>>
    /\ UNCHANGED not_ws_vars

\* future.result gives what the worker gave: task_completed or task_error is
\* sent
WsResult ==
    /\ ws_pc = "result"
    /\ worker \in {"returned", "raised"}
    /\ IF connection_open
       THEN /\ sent' = sent \o ResultMessages(worker, task_id, Len(ws_requests))
            /\ ws_pc' = "receive"
       ELSE /\ ws_pc' = "closed"
            /\ UNCHANGED sent
    /\ worker' = "none"
    /\ UNCHANGED <<connection_open, ws_requests, task_id, issued>>
    /\ UNCHANGED not_ws_vars

\* future.result(timeout=300) raises TimeoutError: task_error is sent, and
\* the executor waits for the worker
WsTimeout ==
    /\ ws_pc = "result"
    /\ worker = "running"
    /\ sent' = IF connection_open
               THEN sent \o ResultMessages("timeout", task_id, Len(ws_requests))
               ELSE sent
    /\ ws_pc' = "shutdown"
    /\ UNCHANGED <<connection_open, ws_requests, worker, task_id, issued>>
    /\ UNCHANGED not_ws_vars

\* the worker has ended after the timeout: the `with` block is left
WsShutdown ==
    /\ ws_pc = "shutdown"
    /\ worker \in {"returned", "raised"}
    /\ ws_pc' = IF connection_open THEN "receive" ELSE "closed"
    /\ worker' = "none"
    /\ UNCHANGED <<connection_open, ws_requests, sent, task_id, issued>>
    /\ UNCHANGED not_ws_vars

\* a client has connected
WsInit ==
    /\ ws_pc = "receive"
    /\ connection_open = TRUE
    /\ ws_requests = <<>>
    /\ sent = <<>>
    /\ worker = "none"
    /\ task_id = 0
    /\ issued = {}

InitWs ==
    WsInit /\ PageIdle /\ MergeIdle /\ PtdIdle /\ ValIdle /\ HdrIdle /\ AsmIdle /\ DocIdle

WsNext ==
    \/ WsReceive
    \/ WsClose
    \/ WsRespond
    \/ WorkerFinish
    \/ WsResult
    \/ WsTimeout
    \/ WsShutdown

SpecWs == InitWs /\ [][WsNext]_vars

\* the handler runs on when it can, and while it waits in future.result
\* either the worker ends or the 300 seconds pass
FairWs ==
    /\ SpecWs
    /\ WF_vars(WsRespond)
    /\ WF_vars(WsResult)
    /\ WF_vars(ws_pc = "result" /\ (WorkerFinish \/ WsTimeout))

-----------------------------------------------------------------------------
(* Claims about find_page_with_text                                        *)

\* the number of words of a text, counted by where its words end
WordsIn(text) ==
    Cardinality({k \in 1..Len(text) :
        /\ text[k] \notin WhiteSpace
        /\ (k = Len(text) \/ text[k + 1] \in WhiteSpace)})

\* C4: find_page_with_text never returns the number of a page whose text has
\* 350 or more whitespace-separated words, whatever the search text, the
\* starting page and the document, even when that page holds the search text.
C4_NeverLongPage ==
    (page_pc = "returned" /\ page_result # NoPage) =>
        /\ page_result \in 1..Len(pdf_pages)
        /\ WordsIn(pdf_pages[page_result]) < 350

\* C4 witness: a page of 350 words holding the search text stood at or after
\* the starting page, and the call returned without choosing it.
C4_Witness ==
    /\ page_pc = "returned"
    /\ \E p \in min_page..Len(pdf_pages) :
          /\ WordsIn(pdf_pages[p]) >= 350
          /\ Contains(Upper(pdf_pages[p]), Upper(search_text))
          /\ page_result > p

\* the pages the specification lets the locator return
Qualifies(text, search) ==
    /\ text # <<>>
    /\ WordsIn(text) < 350
    /\ ~Contains(Upper(text), INDEX)
    /\ Count(Upper(text), TABLE_OF_CONTENTS) < 2
    /\ Contains(Upper(text), Upper(search))

QualifyingPages ==
    {p \in min_page..Len(pdf_pages) : Qualifies(pdf_pages[p], search_text)}

\* C5: find_page_with_text returns the lowest page number p >= min_page whose
\* page has text, fewer than 350 words, no "INDEX", fewer than two "TABLE OF
\* CONTENTS" and the search text (case-insensitively); it returns None exactly
\* when no such page exists, and never a page below min_page.
C5_LowestQualifyingPage ==
    page_pc = "returned" =>
        /\ (QualifyingPages = {} <=> page_result = NoPage)
        /\ QualifyingPages # {} => page_result = SetMin(QualifyingPages)
        /\ page_result # NoPage => page_result >= min_page

\* C5 witness: the call returned a page after skipping a page that holds the
\* search text once in a table of contents, or skipping an index page.
C5_Witness ==
    /\ page_pc = "returned"
    /\ page_result # NoPage
    /\ page_result > min_page
    /\ pdf_pages[page_result] = ContentsOncePage
    /\ pdf_pages[min_page] \in {IndexPage, ContentsTwicePage}

-----------------------------------------------------------------------------
(* Claims about merge_long_rows                                            *)

\* C1: merge_long_rows is idempotent: run again on the table it returned, it
\* returns that table row for row, with no further merge-down or merge-up.
C1_Idempotent ==
    (merge_pc = "returned" /\ runs = 2) => result_df = first_result

\* the rows of the table passed in that read "ASSETS" and carry no values
AssetsRows == {k \in 1..Len(camelot_df) : camelot_df[k] = <<ASSETS, <<>>, <<>>>>}

\* C2: for every table and every place of a row that reads exactly "ASSETS"
\* and has no values, the table returned holds a row whose description is
\* exactly "ASSETS": the row is neither drawn into a merge-down nor given a
\* neighbour's text.
C2_AssetsPreserved ==
    (merge_pc = "returned" /\ AssetsRows # {}) =>
        \E m \in 1..Len(result_df) : result_df[m][1] = ASSETS

\* the rows the first pass classifies as section headers
SectionHeaderRows ==
    {k \in 1..Len(camelot_df) :
        /\ ~has_numbers(camelot_df[k])
        /\ is_section_header(RowText(camelot_df[k]))}

\* C3: every row classified as a section header is in the table returned with
\* its description unchanged, whatever rows precede or follow it.
C3_SectionHeadersVerbatim ==
    merge_pc = "returned" =>
        \A k \in SectionHeaderRows :
            \E m \in 1..Len(result_df) : result_df[m][1] = camelot_df[k][1]

\* the descriptions of three rows, those that are not blank, joined by spaces
JoinedDescriptions(r1, r2, r3) ==
    Join(<<" ">>, SelectSeq(<<Strip(r1[1]), Strip(r2[1]), Strip(r3[1])>>,
                            LAMBDA t : t # <<>>))

\* the row a merge-down of the three rows after the first k rows gives
MergedDownRow(k) ==
    [camelot_df[k + 3] EXCEPT
        ![1] = JoinedDescriptions(camelot_df[k + 1], camelot_df[k + 2], camelot_df[k + 3])]

\* after the first k rows: a fragment of 15 or more words with no number that
\* is no section header, a row with no number, then a row with numbers
FragmentTwoBeforeNumbers(k) ==
    /\ WordsIn(RowText(camelot_df[k + 1])) >= 15
    /\ ~has_numbers(camelot_df[k + 1])
    /\ ~is_section_header(RowText(camelot_df[k + 1]))
    /\ ~has_numbers(camelot_df[k + 2])
    /\ has_numbers(camelot_df[k + 3])

FragmentMergesDown(k) ==
    /\ FragmentTwoBeforeNumbers(k)
    /\ ~is_section_header(RowText(camelot_df[k + 2]))
    /\ ~is_section_header(RowText(camelot_df[k + 3]))

-----------------------------------------------------------------------------
(* Claims about process_table_data                                         *)

\* the whitespace-delimited tokens of a row's concatenated text, '$' removed
RowTokens(row) == Split(RemoveChar(Join(<<" ">>, row), "$"))

\* a token that is one of the dash glyphs
IsDashToken(tok) ==
    tok \in {<<"EMDASH">>, <<"-">>, <<"-", "-">>, <<"ENDASH">>, <<"HBAR">>}

\* a token made of '(', only digits and commas, and ')'
IsBracketToken(tok) ==
    /\ Len(tok) > 2
    /\ tok[1] = "(" /\ tok[Len(tok)] = ")"
    /\ \A k \in 2..(Len(tok) - 1) : tok[k] \in DigitSet \cup {","}

\* the characters of a token that are neither ',' nor '$'
BareDigits(tok) == SelectSeq(tok, LAMBDA ch : ch \notin {",", "$"})

\* a token without parentheses that is an optionally signed decimal number
\* once its commas and '$' are taken out
IsPlainToken(tok) ==
    LET bare == BareDigits(tok)
        body == IF bare # <<>> /\ bare[1] = "-" THEN Tail(bare) ELSE bare
    IN  /\ \A k \in 1..Len(tok) : tok[k] \notin {"(", ")"}
        /\ body # <<>>
        /\ body[1] \in DigitSet
        /\ \A k \in 1..Len(body) : body[k] \in DigitSet \cup {"."}
        /\ Cardinality({k \in 1..Len(body) : body[k] = "."}) <= 1

IsNumericToken(tok) == IsDashToken(tok) \/ IsBracketToken(tok) \/ IsPlainToken(tok)

\* where the run of numeric tokens at the right end of the row starts
TrailingStart(tokens) ==
    SetMin({first \in 1..(Len(tokens) + 1) :
               \A k \in first..Len(tokens) : IsNumericToken(tokens[k])})

\* '-' followed by the digits of a bracketed token
Negated(tok) == <<"-">> \o SelectSeq(tok, LAMBDA ch : ch \in DigitSet)

\* the row the loop is about to read
CurrentRow == df.rows[row_index + 1]

\* the loop is about to read a row
ReadingRow == ptd_pc = "rows" /\ row_index < Len(df.rows)

\* the row the loop has just read, and the last logical row built
LastRead == df.rows[row_index]

LastBuilt == processed_rows[Len(processed_rows)]

\* C6: every bracketed token in the trailing numeric run of a row that has a
\* description is emitted, in its place among the values, as '-' followed by
\* its digits, whatever the description holds.
C6_BracketedNegatives ==
    [][ReadingRow =>
          LET tokens == RowTokens(CurrentRow)
              first == TrailingStart(tokens)
          IN  \A k \in first..Len(tokens) :
                  (first > 1 /\ IsBracketToken(tokens[k])) =>
                      /\ Len(processed_rows') = Len(processed_rows) + 1
                      /\ LET built == processed_rows'[Len(processed_rows')]
                         IN  /\ Len(built) >= k - first + 2
                             /\ built[k - first + 2] = Negated(tokens[k])]_vars

\* C7: every dash glyph in the trailing run of a row that has a description is
\* emitted, in its place among the values, as "" and is no token of the
\* description, also when the trailing tokens are all dash glyphs.
C7_DashAsEmpty ==
    [][ReadingRow =>
          LET tokens == RowTokens(CurrentRow)
              first == TrailingStart(tokens)
          IN  \A k \in first..Len(tokens) :
                  (first > 1 /\ IsDashToken(tokens[k])) =>
                      /\ Len(processed_rows') = Len(processed_rows) + 1
                      /\ LET built == processed_rows'[Len(processed_rows')]
                         IN  /\ Len(built) >= k - first + 2
                             /\ built[k - first + 2] = <<>>
                             /\ Len(Split(built[1])) < k]_vars

\* a cell holding a plain number: digits and thousands commas after an
\* optional '$'
IsPlainNumberCell(cell) ==
    LET digits == IF cell # <<>> /\ cell[1] = "$" THEN Tail(cell) ELSE cell
    IN  /\ digits # <<>>
        /\ digits[1] \in DigitSet
        /\ \A k \in 1..Len(digits) : digits[k] \in DigitSet \cup {","}

\* the number of cells after the description that hold plain numbers, when the
\* row is a description followed by plain numbers and blank cells; else 0
PlainNumbers(row) ==
    LET counts == {n \in 1..(Len(row) - 1) :
                      /\ \A k \in 2..(n + 1) : IsPlainNumberCell(row[k])
                      /\ \A k \in (n + 2)..Len(row) : row[k] = <<>>}
    IN  IF Strip(row[1]) # <<>> /\ counts # {} THEN SetMax(counts) ELSE 0

\* the k numbers of such a row, '$' and commas stripped
StrippedNumbers(row) == [k \in 1..PlainNumbers(row) |-> BareDigits(row[k + 1])]

\* the tokens of the description, '$' removed
DescriptionTokens(row) == Split(RemoveChar(row[1], "$"))

\* the description ends in a token that is not numeric
EndsInText(row) ==
    /\ DescriptionTokens(row) # <<>>
    /\ ~IsNumericToken(DescriptionTokens(row)[Len(DescriptionTokens(row))])

\* C8 as stated: a description followed by k >= 1 plain numbers yields one
\* logical row, the description text unchanged and the k numbers stripped of
\* '$' and commas.
C8_RowSplitUnchanged ==
    [][(ReadingRow /\ PlainNumbers(CurrentRow) >= 1) =>
          processed_rows' =
              Append(processed_rows, <<CurrentRow[1]>> \o StrippedNumbers(CurrentRow))]_vars

\* C8 amended: a description that, '$' removed, ends in a token that is not
\* numeric, followed by k >= 1 plain numbers, yields one logical row: the
\* description's tokens without '$' joined by single spaces, numeric tokens
\* among them kept, and the k numbers stripped of '$' and commas.
C8_RowSplit ==
    [][(ReadingRow /\ PlainNumbers(CurrentRow) >= 1 /\ EndsInText(CurrentRow)) =>
          processed_rows' =
              Append(processed_rows,
                     <<Join(<<" ">>, DescriptionTokens(CurrentRow))>>
                         \o StrippedNumbers(CurrentRow))]_vars

\* C8 witness: the loop has read a row of a description with a number inside
\* it and two '$'- or comma-bearing numbers after it, and built the logical row
\* with that number still in the description.
C8_Witness ==
    /\ ptd_pc = "rows"
    /\ row_index >= 1
    /\ processed_rows # <<>>
    /\ PlainNumbers(LastRead) = 2
    /\ EndsInText(LastRead)
    /\ \E k \in 1..Len(DescriptionTokens(LastRead)) :
           IsPlainToken(DescriptionTokens(LastRead)[k])
    /\ LastBuilt =
           <<Join(<<" ">>, DescriptionTokens(LastRead))>> \o StrippedNumbers(LastRead)
    /\ \E other \in 1..Len(df.rows) :
           /\ \E ch \in 1..Len(df.rows[other][2]) : df.rows[other][2][ch] = ","
           /\ PlainNumbers(df.rows[other]) = 2

\* each row has as many cells as there are headers, and the first header is
\* "Description"
WellFormed(frame) ==
    /\ frame.columns # <<>>
    /\ frame.columns[1] = DESCRIPTION
    /\ \A k \in 1..Len(frame.rows) : Len(frame.rows[k]) = Len(frame.columns)

\* the rows are the logical rows, their missing slots filled with ""
PaddedWithEmpty(frame) ==
    /\ Len(frame.rows) = Len(processed_rows)
    /\ \A k \in 1..Len(frame.rows) :
           /\ Len(frame.rows[k]) >= Len(processed_rows[k])
           /\ \A c \in 1..Len(frame.rows[k]) :
                  frame.rows[k][c] =
                      IF c <= Len(processed_rows[k]) THEN processed_rows[k][c] ELSE <<>>

\* C9 as stated: every table process_table_data returns, and that table after
\* the header names are applied, has "Description" as first header and rows of
\* exactly len(headers) cells.
C9_RowWidthAlways ==
    /\ ptd_pc \in {"returned", "named"} => WellFormed(ptd_result)
    /\ ptd_pc = "named" => WellFormed(table_df)

\* C9 amended: every table process_table_data builds from at least one logical
\* row, and that table after the header names are applied, has "Description" as
\* first header and rows of exactly len(headers) cells, missing slots "";
\* when no logical row was built the table returned is the table given.
C9_RowWidth ==
    /\ (processed_rows # <<>>) =>
           /\ ptd_pc \in {"returned", "named"} =>
                  WellFormed(ptd_result) /\ PaddedWithEmpty(ptd_result)
           /\ ptd_pc = "named" => WellFormed(table_df) /\ PaddedWithEmpty(table_df)
    /\ (processed_rows = <<>> /\ ptd_pc \in {"returned", "named"}) =>
           ptd_result = ptd_df

\* C9 witness: logical rows of different lengths were built, the shorter one
\* padded, and the year labels have replaced the default column names.
C9_Witness ==
    /\ ptd_pc = "named"
    /\ \E k \in 1..Len(processed_rows) : Len(processed_rows[k]) < Len(ptd_result.columns)
    /\ Len(table_df.columns) = 3
    /\ table_df.columns # ptd_result.columns
    /\ table_df.columns[2] = YearLabels[1]

\* the text of a row: its non-blank cells up to the last one that is not a
\* placeholder ('None', 'None_2'), joined by single spaces
RowFullText(row) ==
    LET cells == SelectSeq(row, LAMBDA cell : Strip(cell) # <<>>)
        kept == {k \in 1..Len(cells) :
                    cells[k] \notin {<<"N", "o", "n", "e">>, <<"N", "o", "n", "e", "_", "2">>}}
    IN  IF kept = {} THEN <<>> ELSE Join(<<" ">>, SubSeq(cells, 1, SetMax(kept)))

\* that text with every '$' taken out and the outer whitespace stripped
RowCleanText(row) == Strip(SelectSeq(RowFullText(row), LAMBDA ch : ch # "$"))

\* a text that cannot be split into a description and values: it has no
\* numeric token at all, or only numeric tokens
CannotSplit(text) ==
    \/ \A k \in 1..Len(Split(text)) : ~IsNumericToken(Split(text)[k])
    \/ \A k \in 1..Len(Split(text)) : IsNumericToken(Split(text)[k])

\* a text-only row: the text, then "" in every value cell
TextOnlyRow(text) == <<text>> \o [k \in 1..(Len(df.columns) - 1) |-> <<>>]

-----------------------------------------------------------------------------
(* Claims about the header names                                           *)

\* the number of value columns of the table process_table_data returned
ValueColumns == Len(ptd_result.columns) - 1

\* C19 as stated: the inferred headers replace the column names exactly when
\* there are at least (value columns - 1) of them, the whole list being used;
\* otherwise every name is kept; the number of columns does not change.
C19_HeadersAtLeastValueColumnsLessOne ==
    ptd_pc = "named" =>
        /\ Len(table_df.columns) = Len(ptd_result.columns)
        /\ IF Len(header_years) >= ValueColumns - 1
           THEN table_df.columns = <<DESCRIPTION>> \o header_years
           ELSE table_df.columns = ptd_result.columns

\* C19 amended: the inferred headers replace the column names exactly when
\* there is at least one and at least as many as value columns; the first
\* column is then "Description" and value column k takes header k, headers
\* beyond the last value column being left out; otherwise every name is kept;
\* the number of columns and the rows do not change.
C19_HeadersAtLeastValueColumns ==
    ptd_pc = "named" =>
        /\ Len(table_df.columns) = Len(ptd_result.columns)
        /\ table_df.rows = ptd_result.rows
        /\ IF Len(header_years) >= 1 /\ Len(header_years) >= ValueColumns
           THEN /\ table_df.columns[1] = DESCRIPTION
                /\ \A k \in 1..ValueColumns : table_df.columns[k + 1] = header_years[k]
           ELSE table_df.columns = ptd_result.columns

\* C19 witness: two headers were inferred for a table of one value column, and
\* the table now carries "Description" and the first header.
C19_Witness ==
    /\ ptd_pc = "named"
    /\ Len(header_years) = 2
    /\ ValueColumns = 1
    /\ table_df.columns = <<DESCRIPTION, header_years[1]>>
    /\ table_df.columns # ptd_result.columns

-----------------------------------------------------------------------------
(* Claims about the validator                                              *)

\* the statements of the input that are balance sheets, income statements,
\* cash flow statements
SheetsNamed(name) == {k \in 1..Len(statements) : statements[k].name = name}

BalanceSheetsGiven == SheetsNamed(<<"C", "O", "N", "S", "O", "L", "I", "D", "A", "T",
    "E", "D", " ", "B", "A", "L", "A", "N", "C", "E", " ", "S", "H", "E", "E", "T",
    "S">>)

IncomeStatementsGiven == SheetsNamed(<<"C", "O", "N", "S", "O", "L", "I", "D", "A",
    "T", "E", "D", " ", "S", "T", "A", "T", "E", "M", "E", "N", "T", "S", " ", "O",
    "F", " ", "I", "N", "C", "O", "M", "E">>)

CashFlowsGiven == SheetsNamed(<<"C", "O", "N", "S", "O", "L", "I", "D", "A", "T", "E",
    "D", " ", "S", "T", "A", "T", "E", "M", "E", "N", "T", "S", " ", "O", "F", " ",
    "C", "A", "S", "H", " ", "F", "L", "O", "W", "S">>)

\* the amount a cell reports: its digits, negative when parenthesised, 0 when
\* it has none
Amount(cell) ==
    LET digits == SelectSeq(cell, LAMBDA ch : ch \in DigitSet)
    IN  IF digits = <<>> THEN 0
        ELSE IF \E k \in 1..Len(cell) : cell[k] = "(" THEN 0 - DigitsValue(digits)
        ELSE DigitsValue(digits)

\* the amount of a row summed over all value columns
RowAmount(row) ==
    (IF "FY2024" \in DOMAIN row THEN Amount(row.FY2024) ELSE 0)
        + (IF "FY2023" \in DOMAIN row THEN Amount(row.FY2023) ELSE 0)

\* the rows of a statement whose description holds a phrase, whatever the case
RowsHolding(stmt, phrase) ==
    {k \in 1..Len(stmt.tableData) :
        Contains(Lower(stmt.tableData[k].Description), Lower(phrase))}

TotalAssetsRows(stmt) ==
    {k \in 1..Len(stmt.tableData) : stmt.tableData[k].Description = <<"T", "o", "t",
        "a", "l", " ", "a", "s", "s", "e", "t", "s">>}

FinalTotalRows(stmt) ==
    {k \in 1..Len(stmt.tableData) :
        stmt.tableData[k].Description \in
            {<<"T", "o", "t", "a", "l", " ", "l", "i", "a", "b", "i", "l", "i", "t",
                "i", "e", "s", " ", "a", "n", "d", " ", "s", "t", "o", "c", "k", "h",
                "o", "l", "d", "e", "r", "s", "'", " ", "e", "q", "u", "i", "t", "y">>,
                <<"T", "o", "t", "a", "l", " ", "l", "i", "a", "b", "i", "l", "i", "t",
                "i", "e", "s", " ", "a", "n", "d", " ", "e", "q", "u", "i", "t", "y">>}}

\* the sum of a set of rows of a statement
RECURSIVE AmountOfRows(_, _)
AmountOfRows(stmt, rows) ==
    IF rows = {} THEN 0
    ELSE LET k == CHOOSE x \in rows : TRUE
         IN  RowAmount(stmt.tableData[k]) + AmountOfRows(stmt, rows \ {k})

\* validate_balance_sheet_checks has returned
BalanceChecked ==
    val_pc \in {"income", "cash_flow", "cross_statement", "totals", "done", "raised"}

\* C11: for a balance sheet with a "Total assets" row and a final liabilities
\* and equity total row, balance_sheet_1 is True when the two reported totals
\* are equal and False when they differ by more than 1000.
C11_BalanceCheck ==
    BalanceChecked =>
        \A s \in BalanceSheetsGiven :
            LET sheet == statements[s]
            IN  \A a \in TotalAssetsRows(sheet) :
                    \A f \in FinalTotalRows(sheet) :
                        (Cardinality(FinalTotalRows(sheet)) = 1) =>
                            LET assets == RowAmount(sheet.tableData[a])
                                liabilities == RowAmount(sheet.tableData[f])
                            IN  /\ assets = liabilities => balance_checks[1] = TRUE
                                /\ Abs(assets - liabilities) > 1000 =>
                                       balance_checks[1] = FALSE

\* C11 witness: the balance sheet reports total assets and a liabilities and
\* equity total more than 1000 apart, and balance_sheet_1 came out False.
C11_Witness ==
    /\ BalanceChecked
    /\ \E s \in BalanceSheetsGiven :
           \E a \in TotalAssetsRows(statements[s]) :
               \E f \in FinalTotalRows(statements[s]) :
                   /\ Cardinality(FinalTotalRows(statements[s])) = 1
                   /\ Abs(RowAmount(statements[s].tableData[a])
                          - RowAmount(statements[s].tableData[f])) > 1000
    /\ balance_checks[1] = FALSE

\* C12: balance_sheet_1 is False for every balance sheet that lacks the "Total
\* assets" row or lacks the final liabilities and equity total row, and so is
\* every other balance sheet rule that is not absence-tolerant when a row it
\* requires is absent.
C12_CriticalDefaultFalse ==
    BalanceChecked =>
        \A s \in BalanceSheetsGiven :
            LET sheet == statements[s]
            IN  /\ (TotalAssetsRows(sheet) = {} \/ FinalTotalRows(sheet) = {}) =>
                       balance_checks[1] = FALSE
                /\ (RowsHolding(sheet, <<"T", "o", "t", "a", "l", " ", "c", "u", "r",
                    "r", "e", "n", "t", " ", "a", "s", "s", "e", "t", "s">>) = {}
                       \/ RowsHolding(sheet, <<"T", "o", "t", "a", "l", " ", "c", "u",
                           "r", "r", "e", "n", "t", " ", "l", "i", "a", "b", "i", "l",
                           "i", "t", "i", "e", "s">>) = {}) =>
                       balance_checks[2] = FALSE
                /\ RowsHolding(sheet, <<"C", "a", "s", "h", " ", "a", "n", "d", " ",
                    "c", "a", "s", "h", " ", "e", "q", "u", "i", "v", "a", "l", "e",
                    "n", "t", "s">>) = {} =>
                       balance_checks[3] = FALSE
                /\ RowsHolding(sheet, <<"A", "c", "c", "o", "u", "n", "t", "s", " ",
                    "r", "e", "c", "e", "i", "v", "a", "b", "l", "e">>) = {} =>
                       balance_checks[4] = FALSE
                /\ RowsHolding(sheet, <<"R", "e", "t", "a", "i", "n", "e", "d", " ",
                    "e", "a", "r", "n", "i", "n", "g", "s">>) = {} =>
                       balance_checks[9] = FALSE

\* the totals of the balance sheet have been computed
TotalsComputed == val_pc = "done" /\ balance_sheet_totals # <<>>

\* the rows of a statement above row k whose description does not hold "total"
RowsAbove(stmt, k) ==
    {j \in 1..(k - 1) : ~Contains(Lower(stmt.tableData[j].Description), <<"t", "o",
        "t", "a", "l">>)}

\* C14: the calculated liabilities and equity total is the sum of exactly the
\* rows before the final total row that are neither subtotal rows nor section
\* labels (which carry no amount); the final total row and the rows after it
\* contribute nothing.
C14_LiabilitiesSum ==
    TotalsComputed =>
        \A s \in BalanceSheetsGiven :
            LET sheet == statements[s]
            IN  FinalTotalRows(sheet) # {} =>
                    balance_sheet_totals[1].liabilities_equity.calculated =
                        AmountOfRows(sheet, RowsAbove(sheet,
                            SetMin(FinalTotalRows(sheet))))

\* C15: the calculated total assets is the sum of the rows above the first
\* "total assets" row that are neither subtotal rows nor section labels (which
\* carry no amount), rows with negative values included.
C15_AssetsSum ==
    TotalsComputed =>
        \A s \in BalanceSheetsGiven :
            LET sheet == statements[s]
            IN  TotalAssetsRows(sheet) # {} =>
                    balance_sheet_totals[1].assets.calculated =
                        AmountOfRows(sheet, RowsAbove(sheet,
                            SetMin(TotalAssetsRows(sheet))))

\* difference = |calculated - reported| and matches exactly when it is < 1000
WithinTolerance(rec) ==
    /\ rec.difference = Abs(rec.calculated - rec.reported)
    /\ rec.matches = (rec.difference < 1000)

\* C16 as stated: every Reconciliation returned has difference =
\* |calculated - reported| and matches True exactly when difference < 1000.
C16_ToleranceAlways ==
    TotalsComputed =>
        /\ WithinTolerance(balance_sheet_totals[1].assets)
        /\ WithinTolerance(balance_sheet_totals[1].liabilities_equity)

\* C16 amended: a Reconciliation returned for a balance sheet that has the
\* total row has difference = |calculated - reported| and matches True exactly
\* when difference < 1000; one returned for a balance sheet without the total
\* row has calculated, reported and difference 0 and matches False.
C16_Tolerance ==
    TotalsComputed =>
        \A s \in BalanceSheetsGiven :
            LET sheet == statements[s]
                none == [calculated |-> 0, reported |-> 0, difference |-> 0,
                         matches |-> FALSE]
            IN  /\ IF TotalAssetsRows(sheet) # {}
                   THEN WithinTolerance(balance_sheet_totals[1].assets)
                   ELSE balance_sheet_totals[1].assets = none
                /\ IF FinalTotalRows(sheet) # {}
                   THEN WithinTolerance(balance_sheet_totals[1].liabilities_equity)
                   ELSE balance_sheet_totals[1].liabilities_equity = none

\* C16 witness: the reported total assets exceed the re-summed rows by 1000 or
\* more, so the assets do not match, and the sheet has no final total row.
C16_Witness ==
    /\ TotalsComputed
    /\ \E s \in BalanceSheetsGiven :
           /\ TotalAssetsRows(statements[s]) # {}
           /\ FinalTotalRows(statements[s]) = {}
    /\ balance_sheet_totals[1].assets.calculated > 0
    /\ balance_sheet_totals[1].assets.reported
           >= balance_sheet_totals[1].assets.calculated + 1000
    /\ balance_sheet_totals[1].assets.matches = FALSE
    /\ balance_sheet_totals[1].liabilities_equity.matches = FALSE


\* validate_income_statement_checks and validate_cash_flow_checks have returned
IncomeChecked == val_pc \in {"cash_flow", "cross_statement", "totals", "done"}

CashFlowChecked == val_pc \in {"cross_statement", "totals", "done"}

\* no statement among the given ones has a row holding one of the phrases
RowsAbsent(sheets, phrases) ==
    \A s \in sheets : \A p \in phrases : RowsHolding(statements[s], p) = {}

\* the rows the absence-tolerant rules of each statement look for
BalanceTolerantRows ==
    [r \in {5, 6, 7, 8} |->
        CASE r = 5 -> {<<"I", "n", "v", "e", "n", "t", "o", "r", "y">>}
          [] r = 6 -> {<<"P", "r", "o", "p", "e", "r", "t", "y", " ", "a", "n", "d",
              " ", "e", "q", "u", "i", "p", "m", "e", "n", "t">>}
          [] r = 7 -> {<<"G", "o", "o", "d", "w", "i", "l", "l">>}
          [] r = 8 -> {<<"L", "o", "n", "g", "-", "t", "e", "r", "m", " ", "d", "e",
              "b", "t">>, <<"T", "o", "t", "a", "l", " ", "l", "i", "a", "b", "i", "l",
              "i", "t", "i", "e", "s">>}]

IncomeTolerantRows ==
    [r \in {3, 5} |->
        CASE r = 3 -> {<<"R", "e", "s", "e", "a", "r", "c", "h", " ", "a", "n", "d",
            " ", "d", "e", "v", "e", "l", "o", "p", "m", "e", "n", "t">>, <<"S", "a",
            "l", "e", "s", " ", "a", "n", "d", " ", "m", "a", "r", "k", "e", "t", "i",
            "n", "g">>,
                       <<"G", "e", "n", "e", "r", "a", "l", " ", "a", "n", "d", " ",
                           "a", "d", "m", "i", "n", "i", "s", "t", "r", "a", "t", "i",
                           "v", "e">>}
          [] r = 5 -> {<<"I", "n", "t", "e", "r", "e", "s", "t", " ", "e", "x", "p",
              "e", "n", "s", "e">>, <<"I", "n", "t", "e", "r", "e", "s", "t">>}]

CashFlowTolerantRows ==
    [r \in {3, 5, 6, 7} |->
        CASE r = 3 -> {<<"P", "u", "r", "c", "h", "a", "s", "e", "s", " ", "o", "f",
            " ", "p", "r", "o", "p", "e", "r", "t", "y", " ", "a", "n", "d", " ", "e",
            "q", "u", "i", "p", "m", "e", "n", "t">>}
          [] r = 5 -> {<<"D", "i", "v", "i", "d", "e", "n", "d", " ", "p", "a", "y",
              "m", "e", "n", "t", "s">>}
          [] r = 6 -> {<<"R", "e", "p", "u", "r", "c", "h", "a", "s", "e", "s", " ",
              "o", "f", " ", "s", "t", "o", "c", "k">>}
          [] r = 7 -> {<<"P", "r", "o", "c", "e", "e", "d", "s", " ", "f", "r", "o",
              "m", " ", "i", "s", "s", "u", "a", "n", "c", "e", " ", "o", "f", " ",
              "d", "e", "b", "t">>, <<"R", "e", "p", "a", "y", "m", "e", "n", "t", "s",
              " ", "o", "f", " ", "d", "e", "b", "t">>}]

\* validation raised although the rows the raising rule reads are all there
RaisedOnGivenData ==
    val_pc = "raised" =>
        \E s \in IncomeStatementsGiven :
            /\ RowsHolding(statements[s], <<"N", "e", "t", " ", "i", "n", "c", "o",
                "m", "e">>) # {}
            /\ RowsHolding(statements[s], <<"P", "r", "o", "v", "i", "s", "i", "o",
                "n", " ", "f", "o", "r", " ", "i", "n", "c", "o", "m", "e", " ", "t",
                "a", "x", "e", "s">>) # {}

\* C13 as stated: for every set of input statements each absence-tolerant rule
\* is True when the rows it requires are absent from the input, and validation
\* never raises because data is missing.
C13_TolerantDefaultAlways ==
    /\ BalanceChecked =>
           \A r \in DOMAIN BalanceTolerantRows :
               RowsAbsent(BalanceSheetsGiven, BalanceTolerantRows[r]) =>
                   balance_checks[r] = TRUE
    /\ IncomeChecked =>
           \A r \in DOMAIN IncomeTolerantRows :
               RowsAbsent(IncomeStatementsGiven, IncomeTolerantRows[r]) =>
                   income_checks[r] = TRUE
    /\ CashFlowChecked =>
           \A r \in DOMAIN CashFlowTolerantRows :
               RowsAbsent(CashFlowsGiven, CashFlowTolerantRows[r]) =>
                   cash_flow_checks[r] = TRUE
    /\ RaisedOnGivenData

\* C13 amended: each absence-tolerant rule is True when the statement it reads
\* is among the input statements and the rows it requires are absent from that
\* statement; when the statement itself is not among the input statements
\* every rule of that statement is False; validation never raises because
\* data is missing.
C13_TolerantDefault ==
    /\ BalanceChecked =>
           IF BalanceSheetsGiven = {}
           THEN \A r \in DOMAIN balance_checks : balance_checks[r] = FALSE
           ELSE \A r \in DOMAIN BalanceTolerantRows :
                    RowsAbsent(BalanceSheetsGiven, BalanceTolerantRows[r]) =>
                        balance_checks[r] = TRUE
    /\ IncomeChecked =>
           IF IncomeStatementsGiven = {}
           THEN \A r \in DOMAIN income_checks : income_checks[r] = FALSE
           ELSE \A r \in DOMAIN IncomeTolerantRows :
                    RowsAbsent(IncomeStatementsGiven, IncomeTolerantRows[r]) =>
                        income_checks[r] = TRUE
    /\ CashFlowChecked =>
           IF CashFlowsGiven = {}
           THEN \A r \in DOMAIN cash_flow_checks : cash_flow_checks[r] = FALSE
           ELSE \A r \in DOMAIN CashFlowTolerantRows :
                    RowsAbsent(CashFlowsGiven, CashFlowTolerantRows[r]) =>
                        cash_flow_checks[r] = TRUE
    /\ RaisedOnGivenData

\* C13 witness: all three statements are given, the balance sheet has no
\* inventory row, the income statement no interest row and the cash flow
\* statement an operating cash flow but no dividend row, and the three rules
\* came out True.
C13_Witness ==
    /\ CashFlowChecked
    /\ BalanceSheetsGiven # {} /\ IncomeStatementsGiven # {} /\ CashFlowsGiven # {}
    /\ RowsAbsent(BalanceSheetsGiven, BalanceTolerantRows[5])
    /\ RowsAbsent(IncomeStatementsGiven, IncomeTolerantRows[5])
    /\ RowsAbsent(CashFlowsGiven, CashFlowTolerantRows[5])
    /\ \E s \in CashFlowsGiven :
           RowsHolding(statements[s], <<"N", "e", "t", " ", "c", "a", "s", "h", " ",
               "p", "r", "o", "v", "i", "d", "e", "d", " ", "b", "y", " ", "o", "p",
               "e", "r", "a", "t", "i", "n", "g", " ", "a", "c", "t", "i", "v", "i",
               "t", "i", "e", "s">>) # {}
    /\ balance_checks[5] = TRUE
    /\ income_checks[5] = TRUE
    /\ cash_flow_checks[5] = TRUE

-----------------------------------------------------------------------------
(* Claims about extract_header_info                                        *)

\* extract_header_info has returned for a page that has text
HeadersReturned == hdr_pc = "returned" /\ has_text

\* the line holds "ended" or "as of", in any case, at place k
AnchorWordAt(line, k) ==
    k + 4 <= Len(line) /\ Lower(SubSeq(line, k, k + 4)) \in {<<"e", "n", "d", "e",
        "d">>, <<"a", "s", " ", "o", "f">>}

\* the lines of the page that hold "ended" or "as of"
AnchorLines == {a \in 1..Len(page_lines) : \E k \in 1..Len(page_lines[a]) :
                                               AnchorWordAt(page_lines[a], k)}

\* the word is a four-digit number
IsFourDigits(word) == Len(word) = 4 /\ \A k \in 1..4 : word[k] \in DigitSet

\* the word is a year of this century
IsYear20(word) == IsFourDigits(word) /\ word[1] = "2" /\ word[2] = "0"

\* the line holds the four digits of a year 20xx somewhere
HoldsYear20(line) ==
    \E k \in 1..(Len(line) - 3) : IsYear20(SubSeq(line, k, k + 3))

\* how many words the line starts with before its trailing run of words that
\* are all of the given kind
PrefixWords(line, IsKind(_)) ==
    LET words == Split(line)
    IN  SetMax({0} \cup {k \in 1..Len(words) : ~IsKind(words[k])})

\* the line is a prefix followed by years of the given kind, single spaces
\* between them
IsPrefixAndYears(line, IsKind(_)) ==
    /\ line = Join(<<" ">>, Split(line))
    /\ PrefixWords(line, IsKind) >= 1
    /\ PrefixWords(line, IsKind) < Len(Split(line))

\* "<prefix> <year>" for each of the trailing years, in source order
PrefixedYears(line, IsKind(_)) ==
    LET words == Split(line)
        cut == PrefixWords(line, IsKind)
        prefix == Join(<<" ">>, SubSeq(words, 1, cut))
    IN  [n \in 1..(Len(words) - cut) |-> prefix \o <<" ">> \o words[cut + n]]

\* the anchor line of the scenario
ScenarioLine == <<"Y", "e", "a", "r", " ", "E", "n", "d", "e", "d", " ", "D", "e", "c",
    "e", "m", "b", "e", "r", " ", "3", "1", ",", " ", "2", "0", "2", "3", " ", "2",
    "0", "2", "2", " ", "2", "0", "2", "1">>

\* the headers of the scenario
ScenarioHeaders ==
    << <<"Y", "e", "a", "r", " ", "E", "n", "d", "e", "d", " ", "D", "e", "c", "e",
        "m", "b", "e", "r", " ", "3", "1", ",", " ", "2", "0", "2", "3">>,
       <<"Y", "e", "a", "r", " ", "E", "n", "d", "e", "d", " ", "D", "e", "c", "e",
           "m", "b", "e", "r", " ", "3", "1", ",", " ", "2", "0", "2", "2">>,
       <<"Y", "e", "a", "r", " ", "E", "n", "d", "e", "d", " ", "D", "e", "c", "e",
           "m", "b", "e", "r", " ", "3", "1", ",", " ", "2", "0", "2", "1">> >>

\* C17 as stated: when the first line holding "ended" or "as of" is "Year
\* Ended December 31, 2023 2022 2021" the three headers of the scenario are
\* returned whatever lines follow; in general an anchor line made of a prefix
\* followed by k four-digit years yields the k headers "<prefix> <year>" in
\* source order.
C17_AnchorYearsAlways ==
    (HeadersReturned /\ AnchorLines # {}) =>
        LET anchor == page_lines[SetMin(AnchorLines)]
        IN  /\ anchor = ScenarioLine =>
                   headers_found = [none |-> FALSE, headers |-> ScenarioHeaders]
            /\ IsPrefixAndYears(anchor, IsFourDigits) =>
                   headers_found =
                       [none |-> FALSE, headers |-> PrefixedYears(anchor, IsFourDigits)]

\* neither of the two lines after line a of the page holds a year 20xx
NoYearsFollow(a) ==
    \A k \in (a + 1)..(a + 2) : k <= Len(page_lines) => ~HoldsYear20(page_lines[k])

\* "ended" or "as of" stands once in the line
SingleAnchorWord(line) ==
    Cardinality({k \in 1..Len(line) : AnchorWordAt(line, k)}) = 1

\* C17 amended: when the first line holding "ended" or "as of" is "Year Ended
\* December 31, 2023 2022 2021" and neither of the two lines after it holds a
\* year 20xx, the three headers of the scenario are returned; in general an
\* anchor line made of a prefix, which holds "ended" or "as of" once and no
\* year 20xx, followed by k >= 1 years 20xx yields the k headers
\* "<prefix> <year>" in source order when neither of the two lines after it
\* holds a year 20xx.
C17_AnchorYears ==
    (HeadersReturned /\ AnchorLines # {}) =>
        LET a == SetMin(AnchorLines)
            anchor == page_lines[a]
        IN  NoYearsFollow(a) =>
                /\ anchor = ScenarioLine =>
                       headers_found = [none |-> FALSE, headers |-> ScenarioHeaders]
                /\ ( /\ IsPrefixAndYears(anchor, IsYear20)
                     /\ SingleAnchorWord(anchor)
                     /\ ~HoldsYear20(Join(<<" ">>,
                            SubSeq(Split(anchor), 1, PrefixWords(anchor,
                                IsYear20)))) ) =>
                       headers_found =
                           [none |-> FALSE, headers |-> PrefixedYears(anchor, IsYear20)]

\* C17 witness: the first anchor line is the line of the scenario, a line
\* without years follows it, and the three headers were returned.
C17_Witness ==
    /\ HeadersReturned
    /\ AnchorLines # {}
    /\ SetMin(AnchorLines) < Len(page_lines)
    /\ page_lines[SetMin(AnchorLines)] = ScenarioLine
    /\ page_lines[SetMin(AnchorLines) + 1] = <<"(", "i", "n", " ", "m", "i", "l", "l",
        "i", "o", "n", "s", ")">>
    /\ headers_found.headers = ScenarioHeaders

\* the places of a line where a four-digit number stands on its own
LoneFourDigits(line) ==
    {k \in 1..(Len(line) - 3) :
        /\ IsFourDigits(SubSeq(line, k, k + 3))
        /\ (k = 1 \/ line[k - 1] \notin DigitSet)
        /\ (k + 3 = Len(line) \/ line[k + 4] \notin DigitSet)}

\* the page text holds a four-digit year or an explicit date somewhere
YearOrDateOnPage ==
    \E a \in 1..Len(page_lines) :
        LoneFourDigits(page_lines[a]) # {} \/ FindDates(page_lines[a]) # <<>>

\* C18 as stated: None is returned only if the page text holds no four-digit
\* year and no explicit date anywhere; for every page text that holds a year
\* or a date the result is a non-empty list of headers.
C18_NoneOnlyWithoutEvidence ==
    HeadersReturned =>
        /\ headers_found.none => ~YearOrDateOnPage
        /\ YearOrDateOnPage => (~headers_found.none /\ headers_found.headers # <<>>)

\* how many years 20xx stand as words of their own on the page
YearsOnPage ==
    LET standing(line) ==
            {k \in 1..(Len(line) - 3) :
                /\ IsYear20(SubSeq(line, k, k + 3))
                /\ (k = 1 \/ line[k - 1] \notin WordChars)
                /\ (k + 3 = Len(line) \/ line[k + 4] \notin WordChars)}
    IN  Cardinality({<<a, k>> \in (1..Len(page_lines)) \X (1..40) :
                        k \in standing(page_lines[a])})

\* C18 amended: None is returned only if the page has no text, or no line of
\* the text holds "ended" or "as of" and the text holds fewer than two years
\* 20xx standing as words; for every page text with such a line or with two
\* such years the result is a non-empty list of headers.
C18_NoneOnly ==
    hdr_pc = "returned" =>
        IF has_text /\ (AnchorLines # {} \/ YearsOnPage >= 2)
        THEN ~headers_found.none /\ headers_found.headers # <<>>
        ELSE headers_found.none

\* C18 witness: no line of the page holds "ended" or "as of", the page holds
\* two years, and the headers for the two years were returned.
C18_Witness ==
    /\ HeadersReturned
    /\ AnchorLines = {}
    /\ YearsOnPage = 2
    /\ ~headers_found.none
    /\ Len(headers_found.headers) = 2

-----------------------------------------------------------------------------
(* Claims about the validation summary                                     *)

\* how many entries of a list of results are True
TrueEntries(results) == Cardinality({k \in 1..Len(results) : results[k] = TRUE})

\* the rate, in tenths of a percent, is passed / total x 100 rounded to one
\* decimal: it is within half a tenth of the quotient
IsRoundedRate(rate, passed, total) ==
    /\ 2 * (rate * total - 1000 * passed) <= total
    /\ 2 * (1000 * passed - rate * total) <= total

\* C22: for every set of input statements validate_all_checks returns a
\* checklist with the same 33 check ids (9 balance sheet, 8 income, 8 cash
\* flow, 8 cross-statement); total_checks is the number of entries,
\* passed_checks the number of True entries, failed_checks their difference
\* and pass_rate = passed / total x 100 rounded to one decimal.
C22_Summary ==
    /\ val_pc # "raised"
    /\ val_pc = "done" =>
           /\ Len(balance_checks) = 9
           /\ Len(income_checks) = 8
           /\ Len(cash_flow_checks) = 8
           /\ Len(cross_statement_checks) = 8
           /\ Len(summary) = 1
           /\ summary[1].total_checks = 33
           /\ summary[1].passed_checks =
                  TrueEntries(balance_checks) + TrueEntries(income_checks)
                      + TrueEntries(cash_flow_checks)
                      + TrueEntries(cross_statement_checks)
           /\ summary[1].failed_checks =
                  summary[1].total_checks - summary[1].passed_checks
           /\ IsRoundedRate(summary[1].pass_rate, summary[1].passed_checks,
                            summary[1].total_checks)

-----------------------------------------------------------------------------
(* Claims about the two passes of merge_long_rows                          *)

\* the second pass is handling the row merged_rows[i + 1]
MergeUpStep == merge_pc = "pass2" /\ i < Len(merged_rows) /\ i' = i + 1

\* the description of the row the second pass is handling
CurrentDescription == RowText(merged_rows[i + 1])

\* the row is put into the previous output row: its values stay, and its
\* description is followed by one space and the description handled
MergedUp ==
    /\ final_rows # <<>>
    /\ LET prev_row == final_rows[Len(final_rows)]
       IN  final_rows' =
               [final_rows EXCEPT ![Len(final_rows)] =
                   [prev_row EXCEPT
                       ![1] = RowText(prev_row) \o <<" ">> \o CurrentDescription]]

\* the row is emitted unchanged as a row of its own
OwnRow == final_rows' = Append(final_rows, merged_rows[i + 1])

\* non-empty, fewer than 15 words, and a lowercase first letter or all lowercase
LowercaseContinuation(text) ==
    /\ text # <<>>
    /\ WordCount(text) < word_tolerance
    /\ (text[1] \in LowerSet \/ IsLower(text))

AllCapitals(text) ==
    /\ \E k \in 1..Len(text) : text[k] \in UpperSet
    /\ \A k \in 1..Len(text) : text[k] \notin LowerSet

\* non-empty and not 'nan', fewer than 15 words, no uppercase first letter,
\* not all capitals
NoCapitalStart(text) ==
    /\ text # <<>>
    /\ text # NAN
    /\ WordCount(text) < word_tolerance
    /\ text[1] \notin UpperSet
    /\ ~AllCapitals(text)

ValueCells(row) == SubSeq(row, 2, Len(row))

\* the rows of a table that hold a number in a value cell
NumericRows(table) == {k \in 1..Len(table) : has_numbers(table[k])}

\* the rows of a table that carry the given value cells
RowsCarrying(table, cells) == {k \in 1..Len(table) : ValueCells(table[k]) = cells}

\* C29: merge_long_rows loses no numeric values: the value cells of every
\* input row that holds a number are carried unchanged by exactly one output
\* row (as many output rows carry them as numeric input rows do).
C29_NumericValuesKept ==
    merge_pc = "returned" =>
        \A k \in NumericRows(camelot_df) :
            Cardinality(RowsCarrying(result_df, ValueCells(camelot_df[k]))) =
                Cardinality(NumericRows(camelot_df)
                                \cap RowsCarrying(camelot_df,
                                    ValueCells(camelot_df[k])))

\* a row of 15 or more words without numbers that is no section header
IsFragment(row) ==
    /\ ~has_numbers(row)
    /\ ~is_section_header(RowText(row))
    /\ WordCount(RowText(row)) >= word_tolerance

\* the rows after row k that are section headers
LaterHeaders(k) ==
    {m \in (k + 1)..Len(camelot_df) : is_section_header(RowText(camelot_df[m]))}

\* the rows after row k where the forward scan ends: headers and numeric rows
ScanEnds(k) == LaterHeaders(k) \cup {m \in NumericRows(camelot_df) : m > k}

\* the scan from row k reaches a section header or the end of the table
\* before a row it can merge into
ScanFindsNothing(k) == ScanEnds(k) = {} \/ SetMin(ScanEnds(k)) \in LaterHeaders(k)

\* the first pass is handling the fragment camelot_df[i + 1]
FragmentStep ==
    /\ merge_pc = "pass1"
    /\ i < Len(camelot_df)
    /\ i' > i
    /\ IsFragment(camelot_df[i + 1])

-----------------------------------------------------------------------------
(* Claims about extract_table_from_page                                    *)

\* the header filter is handling the row page_table.rows[filter_index + 1]
FilterStep ==
    /\ asm_pc = "filter"
    /\ filter_index < Len(page_table.rows)
    /\ (filter_index' # filter_index \/ asm_pc' # asm_pc)

\* the description of the row the header filter is handling
FilteredDescription == Strip(page_table.rows[filter_index + 1][1])

\* the words of the assembled column headers, in lowercase
AssembledHeaderWords ==
    UNION {LowerWords(IF IsIntLabel(page_table.columns[c])
                      THEN Tail(page_table.columns[c])
                      ELSE page_table.columns[c]) : c \in 1..Len(page_table.columns)}

\* at least half of the distinct lowercased words of the description are
\* words of the column headers
HalfAreHeaderWords(description) ==
    /\ LowerWords(description) # {}
    /\ 2 * Cardinality(LowerWords(description) \cap AssembledHeaderWords)
           >= Cardinality(LowerWords(description))

\* the rows of the table returned, without the parsed result row
ReturnedRows(optional) ==
    IF has_metadata /\ optional.frame.rows # <<>>
    THEN Tail(optional.frame.rows)
    ELSE optional.frame.rows

\* C28: extract_table_from_page drops a row exactly when its description is
\* empty, or at least 50% of its distinct lowercased words are words of the
\* assembled column headers, or it contains "consolidated statement" in any
\* case; every other row is kept unchanged, and the statement is returned
\* empty when no row survives.
C28_FilterExactly ==
    /\ [][FilterStep =>
             /\ asm_pc' = "filter"
             /\ filter_index' = filter_index + 1
             /\ rows_to_keep' =
                    IF \/ FilteredDescription = <<>>
                       \/ HalfAreHeaderWords(FilteredDescription)
                       \/ Contains(Lower(FilteredDescription), CONSOLIDATED_STATEMENT)
                    THEN rows_to_keep
                    ELSE Append(rows_to_keep, filter_index)]_vars
    /\ [][asm_pc = "filter" /\ asm_pc' = "returned" =>
             /\ ~extracted'.none
             /\ ReturnedRows(extracted') =
                    [k \in 1..Len(rows_to_keep) |-> page_table.rows[rows_to_keep[k] + 1]]]_vars

\* some row of the page has a cell that is not empty
YieldsRows(rows) ==
    \E r \in 1..Len(rows) : \E c \in 1..Len(rows[r]) : Strip(rows[r][c]) # <<>>

\* the stream-mode detector gave at least one non-empty row
CamelotYielded == best_df = "table" /\ YieldsRows(page_rows)

\* the text-layout reader gave at least one non-empty row
PlumberYielded == plumber_tables = "tables" /\ YieldsRows(Tail(page_rows))

\* extract_table_hybrid has returned
HybridReturned == asm_pc \in {"assemble", "filter", "returned", "raised"}

\* C23: table extraction tries the backends in a fixed order, the stream-mode
\* detector first, and uses the first that yields at least one non-empty
\* row; a backend that raises or yields nothing is treated as unavailable and
\* the next one is tried; the extraction gives no table only when every
\* backend has failed.
C23_FallThrough ==
    HybridReturned =>
        /\ backends_tried # <<>>
        /\ backends_tried[1] = "camelot"
        /\ CamelotYielded <=> Len(backends_tried) = 1
        /\ ~HasTable(hybrid_df) =>
               /\ ~CamelotYielded
               /\ Len(backends_tried) > 1
               /\ ~PlumberYielded

\* the tokens of the cells of a row, left to right
RECURSIVE CellTokens(_)
CellTokens(row) ==
    IF row = <<>> THEN <<>> ELSE Split(row[1]) \o CellTokens(Tail(row))

\* the tokens of the rows of a table, top to bottom
RECURSIVE TableTokens(_)
TableTokens(rows) ==
    IF rows = <<>> THEN <<>> ELSE CellTokens(rows[1]) \o TableTokens(Tail(rows))

\* a token without the signs process_table_data removes or rewrites
TokenCore(tok) == SelectSeq(tok, LAMBDA ch : ch \notin {"$", ",", "(", ")", "-"})

\* a is b with some of its members left out
RECURSIVE IsSubsequence(_, _)
IsSubsequence(a, b) ==
    IF a = <<>> THEN TRUE
    ELSE IF b = <<>> THEN FALSE
    ELSE IF a[1] = b[1] THEN IsSubsequence(Tail(a), Tail(b))
    ELSE IsSubsequence(a, Tail(b))

\* the tokens of a list of tokens that are more than signs, without their signs
TokenCores(tokens) ==
    SelectSeq([k \in 1..Len(tokens) |-> TokenCore(tokens[k])], LAMBDA tok : tok # <<>>)

\* the words and numbers of the page, top to bottom and left to right
PageTokens == TokenCores(TableTokens(page_rows))

\* the words of the descriptions of a table, top to bottom
DescriptionsOf(rows) ==
    TokenCores(TableTokens([k \in 1..Len(rows) |-> <<rows[k][1]>>]))

\* the values of a table, top to bottom and left to right
ValuesOf(rows) ==
    TokenCores(TableTokens([k \in 1..Len(rows) |-> Tail(rows[k])]))

\* the descriptions of the rows, and their values, are those of the page
\* in page order with some left out
InPageOrder(rows) ==
    /\ IsSubsequence(DescriptionsOf(rows), PageTokens)
    /\ IsSubsequence(ValuesOf(rows), PageTokens)

-----------------------------------------------------------------------------
(* Claims about extract_all_statements_to_json                             *)

\* the call of extract_all_statements_to_json is over
DocOver == doc_pc \in {"returned", "raised"}

\* the statements looked for, in the order of the calls of find_page_with_text
LookedFor == [k \in 1..Len(attempts) |-> attempts[k].statement]

\* the number of statements assembled
Assembled == Cardinality({k \in 1..Len(attempts) : attempts[k].outcome = "assembled"})

\* C21: when extract_all_statements_to_json is over it has looked for the
\* income statement, the balance sheet and the cash flow statement, in that
\* order, a statement without page, without extracted page or without table
\* not stopping the others; it has returned None exactly when no statement
\* was assembled, and otherwise a result whose extractedCount is the number
\* of statements assembled.
C21_DocumentOutcome ==
    DocOver =>
        /\ LookedFor = StatementTitles
        /\ doc_result.kind \in {"None", "json"}
        /\ doc_result.kind = "None" <=> Assembled = 0
        /\ doc_result.kind = "json" => doc_result.extractedCount = Assembled

\* validate_financial_statements is called at most once, after the three
\* statements were looked for, and when it raised the result carries an empty
\* checklist and a summary of zeros
JoinPoint ==
    /\ validate_calls <= 1
    /\ validate_calls = 1 => Len(attempts) = Len(StatementTitles)
    /\ (doc_pc = "returned" /\ validation_raised) =>
           /\ doc_result.kind = "json"
           /\ doc_result.extractedCount = Len(extracted_statements)
           /\ doc_result.validation.checklist_results = <<>>
           /\ \A field \in DOMAIN doc_result.validation.summary :
                  doc_result.validation.summary[field] = 0

\* the call of validate_financial_statements leaves every statement as it
\* was, and the result carries the statements it was given
ReadOnly ==
    validate_calls' # validate_calls =>
        /\ extracted_statements' = extracted_statements
        /\ doc_result'.statements = extracted_statements

\* C24: in one run of extract_all_statements_to_json
\* validate_financial_statements is called at most once and only after all
\* three statements were looked for; the call changes no name, header or row
\* of a statement; and when it raises, the result is returned all the same,
\* with an empty checklist and a summary of zeros.
C24_JoinPoint == []JoinPoint /\ [][ReadOnly]_vars

\* the validation of two assembled statements raised and the result was
\* returned
C24_Witness ==
    /\ doc_pc = "returned"
    /\ validate_calls = 1
    /\ validation_raised
    /\ Len(extracted_statements) >= 2
    /\ doc_result.statements = extracted_statements

-----------------------------------------------------------------------------
(* Claims about the WebSocket server                                       *)

\* the positions in `sent` of the messages of one type for one request
MessagesFor(request, types) ==
    {m \in 1..Len(sent) : sent[m].request = request /\ sent[m].type \in types}

TerminalTypes == {"task_completed", "task_error"}

\* the request-th request has a path that is given and exists
IsTaskRequest(request) == ws_requests[request] = "exists"

\* the handler has dealt with the request-th request and waits for the next
\* message
Dealt(request) ==
    request <= Len(ws_requests) /\ (request < Len(ws_requests) \/ ws_pc = "receive")

\* the messages the request-th request is owed are all sent: one error
\* message, or task_started and one terminal message
Answered(request) ==
    /\ request <= Len(ws_requests)
    /\ IF IsTaskRequest(request)
       THEN /\ Cardinality(MessagesFor(request, {"task_started"})) = 1
            /\ Cardinality(MessagesFor(request, TerminalTypes)) = 1
       ELSE Cardinality(MessagesFor(request, {"error"})) = 1

\* what is never sent: task_started for a request without a usable path, a
\* task id used twice, a terminal message that does not follow the
\* task_started of its task id on the same request, a second terminal message
\* for a task id, an error message for a request that started a task
LifecycleOrder ==
    /\ \A m \in 1..Len(sent) :
           sent[m].type = "task_started" =>
               /\ IsTaskRequest(sent[m].request)
               /\ \A j \in 1..Len(sent) :
                      (sent[j].type = "task_started" /\ sent[j].task_id = sent[m].task_id)
                          => j = m
    /\ \A j \in 1..Len(sent) :
           sent[j].type \in TerminalTypes =>
               /\ \E m \in 1..(j - 1) :
                      /\ sent[m].type = "task_started"
                      /\ sent[m].task_id = sent[j].task_id
                      /\ sent[m].request = sent[j].request
               /\ \A k \in 1..Len(sent) :
                      (sent[k].type \in TerminalTypes /\ sent[k].task_id = sent[j].task_id)
                          => k = j
    /\ \A request \in 1..Len(ws_requests) :
           /\ Cardinality(MessagesFor(request, {"task_started"})) <= 1
           /\ Cardinality(MessagesFor(request, TerminalTypes)) <= 1
           /\ Cardinality(MessagesFor(request, {"error"})) <= 1
           /\ IsTaskRequest(request) => MessagesFor(request, {"error"}) = {}
           /\ ~IsTaskRequest(request) =>
                  MessagesFor(request, {"task_started"} \cup TerminalTypes) = {}

\* a request the handler has dealt with on an open connection is answered
AnsweredWhenDealt ==
    \A request \in 1..Len(ws_requests) :
        (Dealt(request) /\ ws_pc # "closed") => Answered(request)

\* the request-th request has arrived
Arrived(request) == Len(ws_requests) >= request

\* C30 as stated: every process_pdf request with a path that is given and
\* exists gets task_started with a fresh task id and afterwards exactly one
\* terminal message for that task id, task_completed or task_error, never
\* both and none before task_started; every request with a missing or
\* non-existent path gets an error message and no task_started.
C30_LifecycleAlways ==
    /\ []LifecycleOrder
    /\ []AnsweredWhenDealt
    /\ \A request \in 1..MaxRequests : Arrived(request) ~> Answered(request)

\* C30, for a connection that stays open: every process_pdf request with a
\* path that is given and exists gets task_started with a fresh task id and
\* afterwards exactly one terminal message for that task id, task_completed
\* or task_error, and every request with a missing or non-existent path gets
\* an error message and no task_started, unless the client closes the
\* connection first; on every connection, closed or not, no task id gets both
\* terminal messages or two of one kind, none gets a terminal message before
\* its task_started, and no request without a usable path gets task_started.
C30_Lifecycle ==
    /\ []LifecycleOrder
    /\ []AnsweredWhenDealt
    /\ \A request \in 1..MaxRequests :
           Arrived(request) ~> (Answered(request) \/ ~connection_open)

\* on an open connection every request is answered: a task has run from
\* task_started to its terminal message, and a request without a usable path
\* got its error message
C30_Witness ==
    /\ connection_open
    /\ ws_pc = "receive"
    /\ Len(ws_requests) = MaxRequests
    /\ \A request \in 1..MaxRequests : Answered(request)
    /\ \E m \in 1..Len(sent) : sent[m].type = "task_started"
    /\ \E m \in 1..Len(sent) : sent[m].type \in TerminalTypes
    /\ \E m \in 1..Len(sent) : sent[m].type = "error"

====
